---- MODULE Spec2Model ----
(***************************************************************************)
(* Verification model of the conversation-and-moderation orchestrator      *)
(* (TelegramService and AdminBotService).  The module holds one state       *)
(* machine per component group; every specification shares the variables    *)
(* and keeps the components it does not exercise at their initial value.    *)
(***************************************************************************)
EXTENDS Integers, Sequences, FiniteSets, TLC

(***************************************************************************)
(* Bounds of the model (not program constants).                            *)
(***************************************************************************)
MaxInbound == 3
MaxCallbacks == 2
MaxWorkerRuns == 2
MaxOrderMessages == 3
MaxMedia == 3
MaxSchemaChanges == 2
MaxBlockMessages == 2

Users == {"u1"}

VARIABLES
  \* ---- configuration read in the constructor
  modelConfigured,      \* this.model is set (GEMINI_API_KEY and AI_MODEL_NAME present)
  problemsTopicId,      \* routing.problemsTopicId is set
  \* ---- lifecycle of TelegramService
  startup,              \* how far onModuleInit got, and what it did
  stepCalls,            \* setUserCurrentStep calls between their read and their write
  nstepCalls,           \* number of setUserCurrentStep calls started so far
  anketaCalls,          \* maybeCreateAnketaTask calls between createAdminTask and their next write
  approvedMedia,        \* history: per publish task, the media rows held when its media were approved last
  \* ---- ReplyDebouncer / EscalationController state of TelegramService
  replyTokens,          \* Map<string, number>; 0 stands for "no entry"
  pendingReplies,       \* Map<string, PendingReply>
  timers,               \* per user, the tokens of the setTimeout callbacks still scheduled
  aiPausedUsers,        \* Set<string>
  blockedUsers,         \* Set<string>
  currentStep,          \* user_profiles.current_step
  procs,                \* processBufferedReply / sendHumanizedResponse invocations in flight
  \* ---- observation (history) variables of the debouncer
  inbound,              \* number of inbound private messages received so far
  queued,               \* the queueBufferedReply calls, in call order
  turns,                \* the buffered turns whose combined text reached the escalation check
  aiCalls,              \* the chat.sendMessage calls made to the AI collaborator
  escalations,          \* the escalateToHuman invocations
  sentFragments,        \* the fragments handed to client.sendMessage
  \* ---- database tables
  adminTasks,           \* admin_tasks rows; the id of a row is its index
  orders,               \* orders rows; the id of a row is its index
  userMedia,            \* user_media rows
  adPosts,              \* ad_posts rows
  profiles,             \* user_profiles rows: gender and ad_count
  vipSubscriptions,     \* vip_subscriptions rows; the id of a row is its index
  \* ---- AdminBotService
  routing,              \* the topic and channel ids read from the configuration
  calls,                \* callback-query handlers in flight (peers: the handlers
                        \* that were in flight when this one started)
  ncalls,               \* number of callback queries received so far
  workerRuns,           \* processPendingTasks runs in flight
  nruns,                \* number of processPendingTasks runs started so far
  \* ---- inbound message handlers of TelegramService past the pause check
  flows,                \* handleOrderFlow invocations in flight
  nflows,               \* number of handleOrderFlow invocations started so far
  mediaHandlers,        \* forwardIncomingMedia invocations in flight
  nmedia,               \* number of forwardIncomingMedia invocations started so far
  mediaArchiveSchemaChecked,  \* the flag of ensureMediaArchiveSchemaReadiness
  \* ---- the database schema, changed by migrations outside the process
  columnsPresent,       \* user_media has the three archive columns
  nschema,              \* number of schema changes so far
  \* ---- observation (history) variables of media routing
  lastProbe,            \* result of the schema probe that completed last
  insertLog,            \* the user_media inserts and the last probe result at the time
  dropped,              \* the inbound messages stored and then dropped, with the flags seen
  \* ---- observation (history) variables of moderation
  outcomes,             \* what every finished callback handler did and answered
  auditLog,             \* the logAdminAction messages sent to the audit topic
  fulfilments,          \* the fulfilment calls made by payment approvals
  publishRuns           \* the publishAnketaTask invocations and their results

debVars ==
  << modelConfigured, problemsTopicId, startup, stepCalls, nstepCalls, anketaCalls, approvedMedia,
     replyTokens, pendingReplies, timers,
     aiPausedUsers, blockedUsers, currentStep, procs,
     inbound, queued, turns, aiCalls, escalations, sentFragments >>

dbVars == << adminTasks, orders, userMedia, adPosts, profiles >>

flowVars == << flows, nflows >>

subVars == << vipSubscriptions >>

inboxVars == << dropped >>

mediaVars ==
  << mediaHandlers, nmedia, mediaArchiveSchemaChecked, columnsPresent, nschema,
     lastProbe, insertLog >>

botVars == << routing, calls, ncalls, workerRuns, nruns >>

modLogVars == << outcomes, auditLog, fulfilments, publishRuns >>

cfgVars == << modelConfigured, problemsTopicId, startup, stepCalls, nstepCalls, anketaCalls, approvedMedia >>
slotVars == << replyTokens, pendingReplies, timers >>
pauseVars == << aiPausedUsers, currentStep, adminTasks >>
debLogVars == << inbound, queued, turns, aiCalls, escalations, sentFragments >>
restOfDebounce ==
  << orders, userMedia, adPosts, profiles, botVars, flowVars, mediaVars, subVars,
     inboxVars, modLogVars >>

vars ==
  << debVars, dbVars, subVars, botVars, flowVars, mediaVars, inboxVars, modLogVars >>

(***************************************************************************)
(* Text.  A text is a sequence of chunks; " " and "\n" are the whitespace   *)
(* chunks, every other chunk is a run of non-whitespace words.              *)
(***************************************************************************)
SP == " "
NL == "\n"

IsBlank(chunk) == chunk \in {SP, NL}

RECURSIVE trimStart(_)
trimStart(s) ==
  IF s # <<>> /\ IsBlank(Head(s)) THEN trimStart(Tail(s)) ELSE s

RECURSIVE trimEnd(_)
trimEnd(s) ==
  IF s # <<>> /\ IsBlank(s[Len(s)]) THEN trimEnd(SubSeq(s, 1, Len(s) - 1)) ELSE s

\* String.prototype.trim
trim(s) == trimEnd(trimStart(s))

\* String.prototype.toLowerCase, chunk by chunk
lowerChunk(chunk) ==
  CASE chunk = "ESCALATE_TO_HUMAN" -> "escalate_to_human"
    [] chunk = "Send_Template_Link" -> "send_template_link"
    [] chunk = "Salom" -> "salom"
    [] chunk = "Javob bir." -> "javob bir."
    [] chunk = "Javob ikki." -> "javob ikki."
    [] OTHER -> chunk

toLowerCase(s) == [i \in 1..Len(s) |-> lowerChunk(s[i])]

\* Array.prototype.join("\n") over an array of texts
RECURSIVE joinLines(_)
joinLines(texts) ==
  IF texts = <<>> THEN <<>>
  ELSE IF Len(texts) = 1 THEN texts[1]
  ELSE texts[1] \o <<NL>> \o joinLines(Tail(texts))

\* String.prototype.includes for a lower-case chunk and a keyword
chunkIncludes(chunk, word) ==
  \/ chunk = word
  \/ << chunk, word >> \in { << "firibgar", "firib" >> }

escalationKeywords ==
  { "shikoyat", "muammo", "haqorat", "aldadingiz", "pulim", "qaytar",
    "tulov qilmadim", "tulov qilganman", "janjal", "nohaq", "firib",
    "politsiya", "sud", "prokur", "uraman", "so'kish", "axmoq", "ahmoq",
    "xayvon", "tentak", "sharmanda", "yolg'on", "dolboyob", "pidar", "suka",
    "blya", "fuck", "shit" }

shouldEscalateLocally_NoFirib(text) ==
  LET normalized == toLowerCase(text)
  IN \E word \in escalationKeywords \ {"firib"} :
       \E i \in 1..Len(normalized) : chunkIncludes(normalized[i], word)

shouldEscalateLocally(text) ==
  LET normalized == toLowerCase(text)
  IN \E word \in escalationKeywords :
       \E i \in 1..Len(normalized) : chunkIncludes(normalized[i], word)

isEscalationResponse(responseText) ==
  toLowerCase(trim(responseText)) = << "escalate_to_human" >>

isTemplateLinkCommand(text) ==
  toLowerCase(trim(text)) = << "send_template_link" >>

RECURSIVE splitOnNewline(_, _)
splitOnNewline(s, line) ==
  IF s = <<>> THEN << line >>
  ELSE IF Head(s) = NL THEN << line >> \o splitOnNewline(Tail(s), <<>>)
  ELSE splitOnNewline(Tail(s), Append(line, Head(s)))

\* splitResponse, to the granularity of lines: split on "\n", trim every line,
\* drop the empty ones
splitResponse(text) ==
  LET normalized == trim(text)
      lines == IF normalized = <<>> THEN <<>> ELSE splitOnNewline(normalized, <<>>)
      trimmed == [i \in 1..Len(lines) |-> trim(lines[i])]
  IN SelectSeq(trimmed, LAMBDA line : line # <<>>)

(***************************************************************************)
(* Inputs of the debouncer model.                                          *)
(***************************************************************************)
InboundTexts ==
  { << "Salom" >>,
    << "yordam kerak" >>,
    << SP, "firibgar" >> }

AiResponses ==
  { << "Javob bir.", NL, SP, NL, "Javob ikki." >>,
    << "ESCALATE_TO_HUMAN", SP >>,
    << "Send_Template_Link" >> }

\* onModuleInit has completed: the probe passed, the session is loaded and
\* handleIncomingMessage is attached to the client
Serving ==
  [pc |-> "serving", probe |-> "ok", sessionLoaded |-> TRUE, handlerAttached |-> TRUE]

NoPending == [present |-> FALSE, token |-> 0, messageIds |-> <<>>, messages |-> <<>>]

(***************************************************************************)
(* ReplyDebouncer                                                          *)
(***************************************************************************)
isReplyTokenActive_AlwaysTrue(senderId, token) == TRUE

isReplyTokenActive(senderId, token) == replyTokens[senderId] = token

nextReplyToken(senderId) == replyTokens[senderId] + 1

isUserBlocked_Never(userId) == FALSE

isUserBlocked(userId) == userId \in blockedUsers

isAiPausedForUser(userId) == userId \in aiPausedUsers

\* clearPendingReply: clearTimeout, delete the pending slot, bump the token
clearPendingReply(userId) ==
  /\ timers' = [timers EXCEPT ![userId] = @ \ {pendingReplies[userId].token}]
  /\ pendingReplies' = [pendingReplies EXCEPT ![userId] = NoPending]
  /\ replyTokens' = [replyTokens EXCEPT ![userId] = nextReplyToken(userId)]

queueBufferedReply_NoJoin(u, messageId, content) ==
  LET token == nextReplyToken(u)
      existing == pendingReplies[u]
      trimmed == trim(content)
      pending ==
        [present |-> TRUE, token |-> token, messageIds |-> << messageId >>,
         messages |-> IF trimmed # <<>> THEN << trimmed >> ELSE <<>>]
  IN /\ replyTokens' = [replyTokens EXCEPT ![u] = token]
     /\ timers' = [timers EXCEPT ![u] = {token}]
     /\ pendingReplies' = [pendingReplies EXCEPT ![u] = pending]
     /\ queued' = queued \cup
          {[token |-> token, content |-> content,
            coalesced |-> existing.present /\ existing.token \in timers[u]]}

queueBufferedReply_NoCancel(u, messageId, content) ==
  LET token == nextReplyToken(u)
      existing == pendingReplies[u]
      base ==
        IF existing.present
        THEN existing
        ELSE [present |-> TRUE, token |-> token, messageIds |-> <<>>,
              messages |-> <<>>]
      trimmed == trim(content)
      pending ==
        [base EXCEPT !.token = token,
                     !.messageIds = Append(@, messageId),
                     !.messages = IF trimmed # <<>> THEN Append(@, trimmed) ELSE @]
  IN /\ replyTokens' = [replyTokens EXCEPT ![u] = token]
     /\ timers' = [timers EXCEPT ![u] = @ \cup {token}]
     /\ pendingReplies' = [pendingReplies EXCEPT ![u] = pending]
     /\ queued' = queued \cup
          {[token |-> token, content |-> content,
            coalesced |-> existing.present /\ existing.token \in timers[u]]}

\* queueBufferedReply: bump the token, cancel the running timer, append the
\* trimmed text to the pending slot, start a new timer
queueBufferedReply(u, messageId, content) ==
  LET token == nextReplyToken(u)
      existing == pendingReplies[u]
      base ==
        IF existing.present
        THEN existing
        ELSE [present |-> TRUE, token |-> token, messageIds |-> <<>>,
              messages |-> <<>>]
      trimmed == trim(content)
      pending ==
        [base EXCEPT !.token = token,
                     !.messageIds = Append(@, messageId),
                     !.messages = IF trimmed # <<>> THEN Append(@, trimmed) ELSE @]
  IN /\ replyTokens' = [replyTokens EXCEPT ![u] = token]
     /\ timers' =
          [timers EXCEPT ![u] =
             (IF existing.present THEN @ \ {existing.token} ELSE @) \cup {token}]
     /\ pendingReplies' = [pendingReplies EXCEPT ![u] = pending]
     /\ queued' = queued \cup
          {[token |-> token, content |-> content,
            coalesced |-> existing.present /\ existing.token \in timers[u]]}

\* handleIncomingMessage for a private text message that carries no media and that
\* the order flow does not handle: the message is stored, dropped when the sender
\* is blocked or paused, and queued for a buffered reply otherwise
handleIncomingMessage(u, incomingText) ==
  /\ inbound < MaxInbound
  /\ modelConfigured
  /\ inbound' = inbound + 1
  /\ IF isUserBlocked(u) \/ isAiPausedForUser(u)
     THEN UNCHANGED << slotVars, queued >>
     ELSE queueBufferedReply(u, inbound + 1, incomingText)
  /\ UNCHANGED << cfgVars, pauseVars, blockedUsers, procs, turns, aiCalls,
                  escalations, sentFragments >>

\* the setTimeout callback: processBufferedReply up to its first await
processBufferedReply(u, token) ==
  LET pending == pendingReplies[u]
      combinedMessage == trim(joinLines(pending.messages))
  IN /\ token \in timers[u]
     /\ timers' = [timers EXCEPT ![u] = @ \ {token}]
     /\ IF ~pending.present \/ pending.token # token
        THEN UNCHANGED << pendingReplies, procs >>
        ELSE /\ pendingReplies' = [pendingReplies EXCEPT ![u] = NoPending]
             /\ procs' =
                  IF ~modelConfigured \/ combinedMessage = <<>>
                  THEN procs
                  ELSE procs \cup
                         {[user |-> u, token |-> token, kind |-> "ai",
                           pc |-> "history", input |-> combinedMessage,
                           frags |-> <<>>]}
     /\ UNCHANGED << cfgVars, pauseVars, replyTokens, blockedUsers, inbound, queued,
                     turns, aiCalls, escalations, sentFragments >>

\* createAdminTask: insert with status pending (orderId 0 stands for "no order")
createAdminTask(taskType, userId, orderId, message) ==
  adminTasks' = Append(adminTasks,
    [taskType |-> taskType, status |-> "pending", userId |-> userId,
     orderId |-> orderId, message |-> message, adminMessages |-> 0])

\* escalateToHuman: the topic guard, pauseAiForUser, the persisted step and the
\* escalation task
escalateToHuman(p, trigger) ==
  /\ escalations' = escalations \cup
       {[token |-> p.token, text |-> p.input, trigger |-> trigger]}
  /\ procs' = procs \ {p}
  /\ IF ~problemsTopicId
     THEN UNCHANGED << slotVars, pauseVars >>
     ELSE /\ aiPausedUsers' = aiPausedUsers \cup {p.user}
          /\ clearPendingReply(p.user)
          /\ currentStep' = [currentStep EXCEPT ![p.user] = "escalated_to_admin"]
          /\ createAdminTask("escalation", p.user, 0, p.input)

\* processBufferedReply after markMessageRead and getChatHistory: the keyword
\* check, then either escalateToHuman or the AI call
EscalationCheck(p) ==
  /\ p \in procs
  /\ p.pc = "history"
  /\ turns' = turns \cup {[token |-> p.token, input |-> p.input]}
  /\ IF shouldEscalateLocally(p.input)
     THEN /\ escalateToHuman(p, "keyword")
          /\ UNCHANGED aiCalls
     ELSE /\ aiCalls' = aiCalls \cup
               {[token |-> p.token, input |-> p.input,
                 nth |-> 1 + Cardinality({c \in aiCalls : c.token = p.token})]}
          /\ procs' = (procs \ {p}) \cup {[p EXCEPT !.pc = "ai"]}
          /\ UNCHANGED << escalations, slotVars, pauseVars >>
  /\ UNCHANGED << cfgVars, blockedUsers, inbound, queued, sentFragments >>

\* sendAdminResponse: a fresh token, then sendHumanizedResponse under it
sendAdminResponse(u, text) ==
  LET token == nextReplyToken(u)
  IN /\ replyTokens' = [replyTokens EXCEPT ![u] = token]
     /\ procs' = procs \cup
          {[user |-> u, token |-> token, kind |-> "admin", pc |-> "loop",
            input |-> <<>>, frags |-> splitResponse(text)]}

\* the AI call fails: caught and logged by processBufferedReply
AiFail(p) ==
  /\ p \in procs
  /\ p.pc = "ai"
  /\ procs' = procs \ {p}
  /\ UNCHANGED << cfgVars, slotVars, pauseVars, blockedUsers, inbound, queued,
                  turns, aiCalls, escalations, sentFragments >>

\* the AI call returns responseText; postingContext is what getOpenAdOrder and
\* isPostingAdTemplateStep answer inside handleTemplateLinkAssistantOutput
AiReturn(p, responseText, postingContext) ==
  /\ p \in procs
  /\ p.pc = "ai"
  /\ IF trim(responseText) = <<>>
     THEN /\ procs' = procs \ {p}
          /\ UNCHANGED << escalations, slotVars, pauseVars >>
     ELSE IF isEscalationResponse(responseText)
     THEN escalateToHuman(p, "sentinel")
     ELSE IF postingContext /\ isTemplateLinkCommand(responseText)
     THEN /\ LET token == nextReplyToken(p.user)
             IN /\ replyTokens' = [replyTokens EXCEPT ![p.user] = token]
                /\ procs' = (procs \ {p}) \cup
                     {[user |-> p.user, token |-> token, kind |-> "admin",
                       pc |-> "loop", input |-> <<>>,
                       frags |-> << << "Anketa shabloni" >> >>]}
          /\ UNCHANGED << escalations, pendingReplies, timers, pauseVars >>
     ELSE /\ procs' = (procs \ {p}) \cup
               {[p EXCEPT !.pc = "loop", !.frags = splitResponse(responseText)]}
          /\ UNCHANGED << escalations, slotVars, pauseVars >>
  /\ UNCHANGED << cfgVars, blockedUsers, inbound, queued, turns, aiCalls,
                  sentFragments >>

\* sendHumanizedResponse, head of the fragment loop: the first token check, then
\* the typing delay starts
FragmentCheck(p) ==
  /\ p \in procs
  /\ p.pc = "loop"
  /\ procs' =
       IF p.frags = <<>> \/ ~isReplyTokenActive(p.user, p.token)
       THEN procs \ {p}
       ELSE (procs \ {p}) \cup {[p EXCEPT !.pc = "typing"]}
  /\ UNCHANGED << cfgVars, slotVars, pauseVars, blockedUsers, inbound, queued,
                  turns, aiCalls, escalations, sentFragments >>

\* sendHumanizedResponse after showTyping: the second token check, then
\* client.sendMessage and insertChatMessage
FragmentSend(p) ==
  /\ p \in procs
  /\ p.pc = "typing"
  /\ IF ~isReplyTokenActive(p.user, p.token)
     THEN /\ procs' = procs \ {p}
          /\ UNCHANGED sentFragments
     ELSE /\ sentFragments' = sentFragments \cup
               {[token |-> p.token, kind |-> p.kind, fragment |-> Head(p.frags),
                 activeToken |-> replyTokens[p.user]]}
          /\ procs' = (procs \ {p}) \cup
               {[p EXCEPT !.pc = "loop", !.frags = Tail(p.frags)]}
  /\ UNCHANGED << cfgVars, slotVars, pauseVars, blockedUsers, inbound, queued,
                  turns, aiCalls, escalations >>

NoRouting ==
  [paymentsTopicId |-> FALSE, anketasTopicId |-> FALSE, auditTopicId |-> FALSE,
   archiveTopicId |-> FALSE, publicChannelId |-> FALSE, vipChannelId |-> FALSE]

InitDebounce ==
  /\ modelConfigured \in BOOLEAN
  /\ startup = Serving
  /\ stepCalls = {}
  /\ nstepCalls = 0
  /\ anketaCalls = {}
  /\ approvedMedia = {}
  /\ problemsTopicId \in BOOLEAN
  /\ replyTokens = [u \in Users |-> 0]
  /\ pendingReplies = [u \in Users |-> NoPending]
  /\ timers = [u \in Users |-> {}]
  /\ aiPausedUsers = {}
  /\ blockedUsers = {}
  /\ currentStep = [u \in Users |-> "idle"]
  /\ adminTasks = <<>>
  /\ orders = <<>>
  /\ userMedia = {}
  /\ adPosts = <<>>
  /\ profiles = [u \in Users |-> [gender |-> "none", adCount |-> 0]]
  /\ flows = {}
  /\ nflows = 0
  /\ mediaHandlers = {}
  /\ nmedia = 0
  /\ mediaArchiveSchemaChecked = TRUE
  /\ columnsPresent = TRUE
  /\ nschema = 0
  /\ lastProbe = "ok"
  /\ insertLog = {}
  /\ vipSubscriptions = <<>>
  /\ dropped = {}
  /\ routing = NoRouting
  /\ calls = {}
  /\ ncalls = 0
  /\ workerRuns = {}
  /\ nruns = 0
  /\ outcomes = {}
  /\ auditLog = {}
  /\ fulfilments = {}
  /\ publishRuns = {}
  /\ procs = {}
  /\ inbound = 0
  /\ queued = {}
  /\ turns = {}
  /\ aiCalls = {}
  /\ escalations = {}
  /\ sentFragments = {}

NextDebounce ==
  \/ \E u \in Users, text \in InboundTexts :
       handleIncomingMessage(u, text) /\ UNCHANGED restOfDebounce
  \/ \E u \in Users : \E token \in timers[u] :
       processBufferedReply(u, token) /\ UNCHANGED restOfDebounce
  \/ \E p \in procs : EscalationCheck(p) /\ UNCHANGED restOfDebounce
  \/ \E p \in procs : AiFail(p) /\ UNCHANGED restOfDebounce
  \/ \E p \in procs, responseText \in AiResponses, postingContext \in BOOLEAN :
       AiReturn(p, responseText, postingContext) /\ UNCHANGED restOfDebounce
  \/ \E p \in procs : FragmentCheck(p) /\ UNCHANGED restOfDebounce
  \/ \E p \in procs : FragmentSend(p) /\ UNCHANGED restOfDebounce

SpecDebounce == InitDebounce /\ [][NextDebounce]_vars

(***************************************************************************)
(* Properties of the reply debouncer and of escalation precedence.         *)
(***************************************************************************)
QueuedAt(token) == CHOOSE q \in queued : q.token = token

\* the token of the queueBufferedReply call that precedes the call with this token
PrevToken(token) ==
  CHOOSE t \in {q.token : q \in queued} :
    /\ t < token
    /\ \A q \in queued : q.token < token => q.token <= t

\* the trimmed texts of the burst whose last message was queued under this
\* token, in the order of the queueBufferedReply calls
RECURSIVE RunTexts(_)
RunTexts(token) ==
  LET q == QueuedAt(token)
  IN IF q.coalesced
     THEN Append(RunTexts(PrevToken(token)), trim(q.content))
     ELSE << trim(q.content) >>

ContainsFirib(text) == \E i \in 1..Len(text) : text[i] \in {"firib", "firibgar"}

\* C2: every fragment of an AI reply that reaches client.sendMessage is sent while
\* the token it was dispatched under is still the user's active token; after the
\* token has been superseded no fragment of that reply is sent.
C2_NoStaleFragment ==
  \A f \in sentFragments : f.kind = "ai" => f.activeToken = f.token

\* C2 witness: a two-fragment AI reply was superseded by a newer inbound message
\* after its first fragment; the reply was abandoned with the second one unsent.
C2_Witness ==
  \E f \in sentFragments :
    /\ f.kind = "ai"
    /\ f.fragment = << "Javob bir." >>
    /\ \E q \in queued : q.token > f.token
    /\ ~\E g \in sentFragments : g.token = f.token /\ g.fragment = << "Javob ikki." >>
    /\ ~\E p \in procs : p.token = f.token

\* C6: a turn whose combined buffered text contains "firib" fires the keyword
\* escalation trigger (escalateToHuman is entered with that text, and with the
\* problems topic configured the escalation task carries it), and no AI call is
\* made for that turn although a model is configured.
C6_KeywordBeforeAi ==
  \A t \in turns :
    ContainsFirib(t.input) =>
      /\ modelConfigured
      /\ \E e \in escalations :
           e.token = t.token /\ e.trigger = "keyword" /\ e.text = t.input
      /\ ~\E c \in aiCalls : c.token = t.token
      /\ problemsTopicId =>
           \E i \in 1..Len(adminTasks) :
             adminTasks[i].taskType = "escalation" /\ adminTasks[i].message = t.input

\* C6 witness: a buffered turn of two messages, the second containing "firib",
\* reached the escalation check with a model configured and was escalated.
C6_Witness ==
  /\ modelConfigured
  /\ problemsTopicId
  /\ \E t \in turns :
       /\ t.input = << "Salom", NL, "firibgar" >>
       /\ \E e \in escalations : e.token = t.token /\ e.trigger = "keyword"

AlreadyProcessed == "Allaqachon ishlangan."
AlreadyPublished == "Allaqachon chiqarilgan."

OpenOrderStatuses ==
  { "awaiting_payment", "awaiting_check", "payment_submitted", "awaiting_gender",
    "awaiting_content", "ready_to_publish" }

resolveStepFromOrderState(orderType, orderStatus) ==
  CASE orderStatus = "none" -> "idle"
    [] orderStatus = "awaiting_gender" -> "awaiting_gender"
    [] orderStatus = "awaiting_payment" -> "awaiting_payment_confirmation"
    [] orderStatus = "awaiting_check" -> "awaiting_payment_receipt"
    [] orderStatus = "payment_submitted" -> "payment_receipt_submitted"
    [] orderType = "ad" /\ orderStatus = "awaiting_content" -> "awaiting_candidate_media"
    [] orderType = "ad" /\ orderStatus = "ready_to_publish" -> "awaiting_publish_review"
    [] OTHER -> "idle"

\* getLatestOpenOrder over a value of the orders table: the open order of the
\* user with the greatest id, 0 when there is none
getLatestOpenOrder(rows, userId) ==
  LET open == {i \in 1..Len(rows) :
                 rows[i].userId = userId /\ rows[i].status \in OpenOrderStatuses}
  IN IF open = {} THEN 0 ELSE CHOOSE i \in open : \A j \in open : j <= i

\* the step syncUserCurrentStepFromOrderState writes for an order row
StepOfOrder(rows, orderId) ==
  IF orderId = 0 THEN resolveStepFromOrderState("none", "none")
  ELSE resolveStepFromOrderState(rows[orderId].orderType, rows[orderId].status)

getAdMediaCounts(userId, orderId) ==
  LET rows == {m \in userMedia : m.userId = userId /\ m.orderId = orderId}
      photos == Cardinality({m \in rows : m.mediaType = "photo"})
      videos == Cardinality({m \in rows : m.mediaType = "video"})
  IN [photos |-> photos, videos |-> videos, ready |-> photos >= 2 /\ videos >= 1]

\* logAdminAction: a message to the audit topic when it is configured
logAdminAction(c, action) ==
  auditLog' =
    IF routing.auditTopicId
    THEN auditLog \cup {[call |-> c.id, task |-> c.task, action |-> action]}
    ELSE auditLog

\* a handler returns: its call leaves the set of handlers in flight and what it
\* did is recorded
Finish(c, rowWritten, effects, answer) ==
  /\ calls' = calls \ {c}
  /\ outcomes' = outcomes \cup
       {[call |-> c.id, task |-> c.task, action |-> c.action, peers |-> c.peers,
         rowWritten |-> rowWritten, effects |-> effects, answer |-> answer]}

ActionsOfTaskType(taskType) ==
  CASE taskType = "payment" -> {"approve", "reject"}
    [] taskType = "publish" -> {"publish", "media_approve", "media_reject", "media_reset"}
    [] taskType = "escalation" -> {"resume", "block"}

\* handleCallbackQuery: a moderator presses a button of a posted task message
handleCallbackQuery(taskId, action) ==
  /\ ncalls < MaxCallbacks
  /\ taskId \in 1..Len(adminTasks)
  /\ adminTasks[taskId].adminMessages > 0
  /\ action \in ActionsOfTaskType(adminTasks[taskId].taskType)
  /\ ncalls' = ncalls + 1
  /\ calls' = calls \cup
       {[id |-> ncalls + 1, task |-> taskId, action |-> action, pc |-> "select",
         peers |-> {d.id : d \in calls}]}
  /\ UNCHANGED << flowVars, mediaVars, subVars, inboxVars,
                  debVars, dbVars, routing, workerRuns, nruns, modLogVars >>

(***************************************************************************)
(* The posting worker.                                                     *)
(***************************************************************************)
\* the rows processPendingTasks selects: status pending, greatest id first,
\* restricted to the task types whose review topic is configured
RECURSIVE PendingBatch(_)
PendingBatch(n) ==
  IF n = 0 THEN <<>>
  ELSE IF /\ adminTasks[n].status = "pending"
          /\ \/ adminTasks[n].taskType = "payment" /\ routing.paymentsTopicId
             \/ adminTasks[n].taskType = "publish" /\ routing.anketasTopicId
             \/ adminTasks[n].taskType = "escalation" /\ problemsTopicId
       THEN << n >> \o PendingBatch(n - 1)
       ELSE PendingBatch(n - 1)

processPendingTasks ==
  /\ nruns < MaxWorkerRuns
  /\ PendingBatch(Len(adminTasks)) # <<>>
  /\ nruns' = nruns + 1
  /\ workerRuns' = workerRuns \cup
       {[run |-> nruns + 1, batch |-> PendingBatch(Len(adminTasks)), pc |-> "send"]}
  /\ UNCHANGED << flowVars, mediaVars, subVars, inboxVars,
                  debVars, dbVars, routing, calls, ncalls, modLogVars >>

AdvanceRun(w) ==
  workerRuns' =
    IF Len(w.batch) = 1 THEN workerRuns \ {w}
    ELSE (workerRuns \ {w}) \cup {[w EXCEPT !.batch = Tail(@), !.pc = "send"]}

\* postPaymentTask / postPublishTask / postEscalationTask up to the end of
\* client.sendMessage; a failed send is caught and the task stays as it is
postTaskSend(w, sent) ==
  /\ w \in workerRuns
  /\ w.pc = "send"
  /\ IF sent
     THEN /\ adminTasks' = [adminTasks EXCEPT ![Head(w.batch)].adminMessages = @ + 1]
          /\ workerRuns' = (workerRuns \ {w}) \cup {[w EXCEPT !.pc = "update"]}
     ELSE /\ AdvanceRun(w)
          /\ UNCHANGED adminTasks
  /\ UNCHANGED << profiles, flowVars, mediaVars, subVars, inboxVars,
                  cfgVars, slotVars, aiPausedUsers,
                  blockedUsers, currentStep, procs, debLogVars, orders, userMedia,
                  adPosts, routing, calls, ncalls, nruns, modLogVars >>

\* the update that follows the send: status posted, whatever the status is now
postTaskUpdate(w) ==
  /\ w \in workerRuns
  /\ w.pc = "update"
  /\ adminTasks' = [adminTasks EXCEPT ![Head(w.batch)].status = "posted"]
  /\ AdvanceRun(w)
  /\ UNCHANGED << profiles, flowVars, mediaVars, subVars, inboxVars,
                  cfgVars, slotVars, aiPausedUsers,
                  blockedUsers, currentStep, procs, debLogVars, orders, userMedia,
                  adPosts, routing, calls, ncalls, nruns, modLogVars >>

(***************************************************************************)
(* Payment decisions.                                                      *)
(***************************************************************************)
\* handlePaymentCallback: the select and the early answer for a decided task
handlePaymentSelect(c) ==
  /\ c \in calls
  /\ c.pc = "select"
  /\ c.action \in {"approve", "reject"}
  /\ IF adminTasks[c.task].status \in {"approved", "rejected"}
     THEN Finish(c, FALSE, FALSE, AlreadyProcessed)
     ELSE /\ calls' = (calls \ {c}) \cup {[c EXCEPT !.pc = "update"]}
          /\ UNCHANGED outcomes
  /\ UNCHANGED << flowVars, mediaVars, subVars, inboxVars,
                  debVars, dbVars, routing, ncalls, workerRuns, nruns,
                  auditLog, fulfilments, publishRuns >>

\* the statuses the conditional update of handlePaymentCallback accepts
PaymentUpdatable(status) == status \in {"pending", "posted", "payment_submitted"}

\* handlePaymentCallback: update ... where id = task and status in (...) returning
handlePaymentUpdate(c) ==
  /\ c \in calls
  /\ c.pc = "update"
  /\ c.action \in {"approve", "reject"}
  /\ IF PaymentUpdatable(adminTasks[c.task].status)
     THEN /\ adminTasks' =
               [adminTasks EXCEPT ![c.task].status =
                  IF c.action = "approve" THEN "approved" ELSE "rejected"]
          /\ calls' = (calls \ {c}) \cup {[c EXCEPT !.pc = "effects"]}
          /\ UNCHANGED outcomes
     ELSE /\ Finish(c, FALSE, FALSE, AlreadyProcessed)
          /\ UNCHANGED adminTasks
  /\ UNCHANGED << profiles, flowVars, mediaVars, subVars, inboxVars,
                  cfgVars, slotVars, aiPausedUsers,
                  blockedUsers, currentStep, procs, debLogVars, orders, userMedia,
                  adPosts, routing, ncalls, workerRuns, nruns, auditLog,
                  fulfilments, publishRuns >>

\* fulfillContactOrder / activateVipOrder / handleAdPaymentApproved: the order
\* status each of them writes; found says whether the contact (contact order) or
\* the profile gender (ad order) is available
FulfilledStatus(orderType, found) ==
  CASE orderType = "contact" -> IF found THEN "completed" ELSE "failed"
    [] orderType = "vip" -> "completed"
    [] orderType = "ad" -> IF found THEN "awaiting_content" ELSE "awaiting_gender"

FulfilledStep(orderType, found) ==
  CASE orderType = "ad" ->
         IF found THEN "awaiting_candidate_media" ELSE "awaiting_gender"
    [] OTHER -> "idle"

\* upsertVipSubscription: reads the newest row of the user for the expiry date
\* and inserts a new row with status active
upsertVipSubscription(userId) ==
  Append(vipSubscriptions, [userId |-> userId, status |-> "active"])

\* handlePaymentCallback after a successful update: fulfilment or the reject
\* write, the audit entry, the user notification and the answer
handlePaymentEffects(c, found) ==
  /\ c \in calls
  /\ c.pc = "effects"
  /\ LET task == adminTasks[c.task]
         order == orders[task.orderId]
     IN IF c.action = "approve"
        THEN /\ orders' = [orders EXCEPT ![task.orderId].status =
                             FulfilledStatus(order.orderType, found)]
             /\ currentStep' = [currentStep EXCEPT ![order.userId] =
                                  FulfilledStep(order.orderType, found)]
             /\ fulfilments' = fulfilments \cup
                  {[call |-> c.id, order |-> task.orderId, kind |-> order.orderType]}
             /\ sendAdminResponse(order.userId, << "To'lov tasdiqlandi." >>)
             /\ Finish(c, TRUE, TRUE, "Tasdiqlandi")
        ELSE /\ orders' = [orders EXCEPT ![task.orderId].status = "awaiting_payment"]
             /\ currentStep' = [currentStep EXCEPT ![order.userId] =
                                  resolveStepFromOrderState(order.orderType,
                                                            "awaiting_payment")]
             /\ sendAdminResponse(task.userId, << "To'lov topilmadi." >>)
             /\ UNCHANGED fulfilments
             /\ Finish(c, TRUE, TRUE, "Rad etildi")
  /\ vipSubscriptions' =
       IF c.action = "approve" /\ orders[adminTasks[c.task].orderId].orderType = "vip"
       THEN upsertVipSubscription(orders[adminTasks[c.task].orderId].userId)
       ELSE vipSubscriptions
  /\ logAdminAction(c, c.action)
  /\ UNCHANGED << profiles, flowVars, mediaVars, inboxVars,
                  cfgVars, pendingReplies, timers,
                  aiPausedUsers, blockedUsers, debLogVars, adminTasks, userMedia,
                  adPosts, routing, ncalls, workerRuns, nruns, publishRuns >>

\* handlePaymentCallback after a successful update of an approve, when the
\* fulfilment call throws at its user notification (client.sendMessage inside
\* sendHumanizedResponse): activateVipOrder has already extended the
\* subscription, the order row is not written, and the exception leaves
\* handlePaymentCallback before logAdminAction and event.answer
handlePaymentEffectsThrow(c) ==
  /\ c \in calls
  /\ c.pc = "effects"
  /\ c.action = "approve"
  /\ LET task == adminTasks[c.task]
         order == orders[task.orderId]
     IN /\ fulfilments' = fulfilments \cup
             {[call |-> c.id, order |-> task.orderId, kind |-> order.orderType]}
        /\ vipSubscriptions' =
             IF order.orderType = "vip" THEN upsertVipSubscription(order.userId)
             ELSE vipSubscriptions
  /\ Finish(c, TRUE, FALSE, "none")
  /\ UNCHANGED << flowVars, mediaVars, inboxVars, debVars, dbVars, routing, ncalls,
                  workerRuns, nruns, auditLog, publishRuns >>

(***************************************************************************)
(* Escalation resolutions.                                                 *)
(***************************************************************************)
handleEscalationSelect(c) ==
  /\ c \in calls
  /\ c.pc = "select"
  /\ c.action \in {"resume", "block"}
  /\ IF adminTasks[c.task].status \in {"resolved", "blocked"}
     THEN Finish(c, FALSE, FALSE, AlreadyProcessed)
     ELSE /\ calls' = (calls \ {c}) \cup {[c EXCEPT !.pc = "side"]}
          /\ UNCHANGED outcomes
  /\ UNCHANGED << flowVars, mediaVars, subVars, inboxVars,
                  debVars, dbVars, routing, ncalls, workerRuns, nruns,
                  auditLog, fulfilments, publishRuns >>

\* resumeAiForUser / blockEscalatedUser, called before the task row is updated
handleEscalationSide(c) ==
  /\ c \in calls
  /\ c.pc = "side"
  /\ LET userId == adminTasks[c.task].userId
     IN /\ IF c.action = "resume"
           THEN /\ aiPausedUsers' = aiPausedUsers \ {userId}
                /\ blockedUsers' = blockedUsers \ {userId}
                /\ currentStep' = [currentStep EXCEPT ![userId] =
                     StepOfOrder(orders, getLatestOpenOrder(orders, userId))]
           ELSE /\ aiPausedUsers' = aiPausedUsers \cup {userId}
                /\ blockedUsers' = blockedUsers \cup {userId}
                /\ currentStep' = [currentStep EXCEPT ![userId] = "escalated_to_admin"]
        /\ clearPendingReply(userId)
  /\ calls' = (calls \ {c}) \cup {[c EXCEPT !.pc = "update"]}
  /\ UNCHANGED << flowVars, mediaVars, subVars, inboxVars,
                  cfgVars, procs, debLogVars, dbVars, routing, ncalls,
                  workerRuns, nruns, modLogVars >>

\* handleEscalationCallback: update ... where status in (pending, posted)
handleEscalationUpdate(c) ==
  /\ c \in calls
  /\ c.pc = "update"
  /\ c.action \in {"resume", "block"}
  /\ IF adminTasks[c.task].status \in {"pending", "posted"}
     THEN /\ adminTasks' =
               [adminTasks EXCEPT ![c.task].status =
                  IF c.action = "resume" THEN "resolved" ELSE "blocked"]
          /\ logAdminAction(c, c.action)
          /\ Finish(c, TRUE, TRUE,
                    IF c.action = "resume" THEN "AI qaytarildi"
                    ELSE "Foydalanuvchi bloklandi")
     ELSE /\ Finish(c, FALSE, TRUE, AlreadyProcessed)
          /\ UNCHANGED << adminTasks, auditLog >>
  /\ UNCHANGED << profiles, flowVars, mediaVars, subVars, inboxVars,
                  cfgVars, slotVars, aiPausedUsers,
                  blockedUsers, currentStep, procs, debLogVars, orders, userMedia,
                  adPosts, routing, ncalls, workerRuns, nruns, fulfilments,
                  publishRuns >>

(***************************************************************************)
(* Publish and media review.                                               *)
(***************************************************************************)
handlePublishSelect(c) ==
  /\ c \in calls
  /\ c.pc = "select"
  /\ c.action = "publish"
  /\ IF adminTasks[c.task].status = "published"
     THEN Finish(c, FALSE, FALSE, AlreadyPublished)
     ELSE IF adminTasks[c.task].status # "media_approved"
     THEN Finish(c, FALSE, FALSE, "Avval media tasdiqlang.")
     ELSE /\ calls' = (calls \ {c}) \cup {[c EXCEPT !.pc = "publish"]}
          /\ UNCHANGED outcomes
  /\ UNCHANGED << flowVars, mediaVars, subVars, inboxVars,
                  debVars, dbVars, routing, ncalls, workerRuns, nruns,
                  auditLog, fulfilments, publishRuns >>

\* the status a channel publication ends with: pending when the channel is not
\* configured, else published or failed with the outcome of the send
ChannelStatus(configured, sendOk) ==
  IF ~configured THEN "pending" ELSE IF sendOk THEN "published" ELSE "failed"

isFullyPublished_PublicOnly(publicStatus, vipStatus) == publicStatus = "published"

isFullyPublished(publicStatus, vipStatus) ==
  publicStatus = "published" /\ vipStatus = "published"

\* publishAnketaTask returned without publishing, or threw: the handler's
\* remaining part (answer and audit entry) runs only when answered
PublishStopped(c, adPostInserted, answered) ==
  /\ adPosts' =
       IF adPostInserted
       THEN Append(adPosts, [taskId |-> c.task, status |-> "publishing"])
       ELSE adPosts
  /\ IF answered
     THEN /\ logAdminAction(c, "publish")
          /\ Finish(c, FALSE, adPostInserted, "Kanalga chiqarildi.")
     ELSE /\ UNCHANGED auditLog
          /\ Finish(c, FALSE, adPostInserted, "none")
  /\ UNCHANGED << adminTasks, orders, currentStep, replyTokens, procs, publishRuns >>

\* handlePublishCallback from the call of publishAnketaTask to its end;
\* archiveOk, publicOk and vipOk are the outcomes of the three sends
publishAnketaTask(c, archiveOk, publicOk, vipOk) ==
  /\ c \in calls
  /\ c.pc = "publish"
  /\ LET task == adminTasks[c.task]
         orderId == task.orderId
         order == orders[orderId]
         counts == getAdMediaCounts(order.userId, orderId)
         publicStatus == ChannelStatus(routing.publicChannelId, publicOk)
         vipStatus == ChannelStatus(routing.vipChannelId, vipOk)
         fully == isFullyPublished(publicStatus, vipStatus)
     IN IF ~routing.publicChannelId /\ ~routing.vipChannelId
        THEN PublishStopped(c, FALSE, TRUE)
        ELSE IF ~counts.ready \/ counts.photos > 2 \/ counts.videos > 1
        THEN PublishStopped(c, TRUE, TRUE)
        ELSE IF routing.archiveTopicId /\ ~archiveOk
        THEN PublishStopped(c, TRUE, FALSE)
        ELSE /\ adPosts' = Append(adPosts,
                  [taskId |-> c.task,
                   status |->
                     IF fully THEN "published"
                     ELSE IF publicStatus = "failed" \/ vipStatus = "failed"
                     THEN "partial_failed"
                     ELSE "published"])
             /\ adminTasks' = [adminTasks EXCEPT ![c.task].status =
                                 IF fully THEN "published" ELSE "publish_partial_failed"]
             /\ orders' = IF fully
                          THEN [orders EXCEPT ![orderId].status = "completed"]
                          ELSE orders
             /\ currentStep' = IF fully
                               THEN [currentStep EXCEPT ![order.userId] = "idle"]
                               ELSE currentStep
             /\ IF fully
                THEN sendAdminResponse(task.userId, << "Anketangiz chiqdi." >>)
                ELSE UNCHANGED << replyTokens, procs >>
             /\ publishRuns' = publishRuns \cup
                  {[call |-> c.id, order |-> orderId,
                    archive |-> IF routing.archiveTopicId THEN "sent" ELSE "unconfigured",
                    publicStatus |-> publicStatus, vipStatus |-> vipStatus,
                    orderBefore |-> order.status,
                    orderAfter |-> IF fully THEN "completed" ELSE order.status]}
             /\ logAdminAction(c, "publish")
             /\ Finish(c, TRUE, TRUE, "Kanalga chiqarildi.")
  /\ UNCHANGED << profiles, flowVars, mediaVars, subVars, inboxVars,
                  cfgVars, pendingReplies, timers,
                  aiPausedUsers, blockedUsers, debLogVars, userMedia, routing,
                  ncalls, workerRuns, nruns, fulfilments >>

\* the user_media rows held for an order
MediaHeldFor(userId, orderId) ==
  {m \in userMedia : m.userId = userId /\ m.orderId = orderId}

\* handleMediaApprove: an unconditional update of the task row
handleMediaApprove(c) ==
  /\ c \in calls
  /\ c.pc = "select"
  /\ c.action = "media_approve"
  /\ adminTasks' = [adminTasks EXCEPT ![c.task].status = "media_approved"]
  /\ approvedMedia' =
       {a \in approvedMedia : a.task # c.task} \cup
         {[task |-> c.task,
           media |-> MediaHeldFor(adminTasks[c.task].userId, adminTasks[c.task].orderId)]}
  /\ logAdminAction(c, "media_approved")
  /\ Finish(c, TRUE, FALSE, "Media tasdiqlandi.")
  /\ UNCHANGED << profiles, flowVars, mediaVars, subVars, inboxVars,
                  modelConfigured, problemsTopicId, startup, stepCalls,
                  nstepCalls, anketaCalls, slotVars, aiPausedUsers,
                  blockedUsers, currentStep, procs, debLogVars, orders, userMedia,
                  adPosts, routing, ncalls, workerRuns, nruns, fulfilments,
                  publishRuns >>

\* clearOrderMedia
clearOrderMedia(userId, orderId) ==
  userMedia' = {m \in userMedia : ~(m.userId = userId /\ m.orderId = orderId)}

\* handleMediaReject (status media_rejected) and handleMediaReset (status
\* media_reset): both notify the user, clear the order's media, move the order
\* back to awaiting_content and update the task row unconditionally
handleMediaRejectOrReset(c) ==
  /\ c \in calls
  /\ c.pc = "select"
  /\ c.action \in {"media_reject", "media_reset"}
  /\ LET task == adminTasks[c.task]
         order == orders[task.orderId]
     IN /\ adminTasks' = [adminTasks EXCEPT ![c.task].status =
                            IF c.action = "media_reject" THEN "media_rejected"
                            ELSE "media_reset"]
        /\ sendAdminResponse(task.userId, << "Qaytadan 2 ta rasm va 1 ta video yuboring." >>)
        /\ clearOrderMedia(task.userId, task.orderId)
        /\ orders' = [orders EXCEPT ![task.orderId].status = "awaiting_content"]
        /\ currentStep' = [currentStep EXCEPT ![order.userId] =
                             resolveStepFromOrderState(order.orderType, "awaiting_content")]
  /\ logAdminAction(c, c.action)
  /\ Finish(c, TRUE, TRUE,
            IF c.action = "media_reject" THEN "Media rad etildi."
            ELSE "Media reset qilindi.")
  /\ UNCHANGED << profiles, flowVars, mediaVars, subVars, inboxVars,
                  cfgVars, pendingReplies, timers,
                  aiPausedUsers, blockedUsers, debLogVars, adPosts, routing, ncalls,
                  workerRuns, nruns, fulfilments, publishRuns >>

PaymentOrderTypes == {"contact", "vip"}

\* a user with an open order whose receipt is under review, an ad order whose
\* content is ready for publication and an escalated conversation: the three
\* tasks are pending and not yet posted
InitModeration ==
  /\ modelConfigured = TRUE
  /\ startup = Serving
  /\ stepCalls = {}
  /\ nstepCalls = 0
  /\ anketaCalls = {}
  /\ approvedMedia = {}
  /\ problemsTopicId = TRUE
  /\ replyTokens = [u \in Users |-> 0]
  /\ pendingReplies = [u \in Users |-> NoPending]
  /\ timers = [u \in Users |-> {}]
  /\ aiPausedUsers = Users
  /\ blockedUsers = {}
  /\ currentStep = [u \in Users |-> "escalated_to_admin"]
  /\ procs = {}
  /\ inbound = 0
  /\ queued = {}
  /\ turns = {}
  /\ aiCalls = {}
  /\ escalations = {}
  /\ sentFragments = {}
  /\ \E orderType \in PaymentOrderTypes :
       orders = << [orderType |-> orderType, status |-> "payment_submitted",
                    userId |-> "u1"],
                   [orderType |-> "ad", status |-> "ready_to_publish",
                    userId |-> "u1"] >>
  /\ adminTasks =
       << [taskType |-> "payment", status |-> "pending", userId |-> "u1",
           orderId |-> 1, message |-> <<>>, adminMessages |-> 0],
          [taskType |-> "publish", status |-> "pending", userId |-> "u1",
           orderId |-> 2, message |-> << "Anketa" >>, adminMessages |-> 0],
          [taskType |-> "escalation", status |-> "pending", userId |-> "u1",
           orderId |-> 0, message |-> << "firibgar" >>, adminMessages |-> 0] >>
  /\ userMedia =
       { [id |-> 1, userId |-> "u1", orderId |-> 2, mediaType |-> "photo"],
         [id |-> 2, userId |-> "u1", orderId |-> 2, mediaType |-> "photo"],
         [id |-> 3, userId |-> "u1", orderId |-> 2, mediaType |-> "video"] }
  /\ adPosts = <<>>
  /\ profiles = [u \in Users |-> [gender |-> "none", adCount |-> 0]]
  /\ flows = {}
  /\ nflows = 0
  /\ mediaHandlers = {}
  /\ nmedia = 0
  /\ mediaArchiveSchemaChecked = TRUE
  /\ columnsPresent = TRUE
  /\ nschema = 0
  /\ lastProbe = "ok"
  /\ insertLog = {}
  /\ vipSubscriptions = <<>>
  /\ dropped = {}
  /\ routing = [paymentsTopicId |-> TRUE, anketasTopicId |-> TRUE,
                auditTopicId |-> TRUE, archiveTopicId |-> TRUE,
                publicChannelId |-> TRUE, vipChannelId |-> TRUE]
  /\ calls = {}
  /\ ncalls = 0
  /\ workerRuns = {}
  /\ nruns = 0
  /\ outcomes = {}
  /\ auditLog = {}
  /\ fulfilments = {}
  /\ publishRuns = {}

NextModeration ==
  \/ processPendingTasks
  \/ \E w \in workerRuns, sent \in BOOLEAN : postTaskSend(w, sent)
  \/ \E w \in workerRuns : postTaskUpdate(w)
  \/ \E taskId \in 1..Len(adminTasks) :
       \E action \in ActionsOfTaskType(adminTasks[taskId].taskType) :
         handleCallbackQuery(taskId, action)
  \/ \E c \in calls : handlePaymentSelect(c)
  \/ \E c \in calls : handlePaymentUpdate(c)
  \/ \E c \in calls, found \in BOOLEAN : handlePaymentEffects(c, found)
  \/ \E c \in calls : handleEscalationSelect(c)
  \/ \E c \in calls : handleEscalationSide(c)
  \/ \E c \in calls : handleEscalationUpdate(c)
  \/ \E c \in calls : handlePublishSelect(c)
  \/ \E c \in calls, archiveOk \in BOOLEAN, publicOk \in BOOLEAN, vipOk \in BOOLEAN :
       publishAnketaTask(c, archiveOk, publicOk, vipOk)
  \/ \E c \in calls : handleMediaApprove(c)
  \/ \E c \in calls : handleMediaRejectOrReset(c)

SpecModeration == InitModeration /\ [][NextModeration]_vars

\* the publish task of an ad order has been posted for review; the channel and
\* archive ids are whatever the configuration holds
InitPublish ==
  /\ modelConfigured = TRUE
  /\ startup = Serving
  /\ stepCalls = {}
  /\ nstepCalls = 0
  /\ anketaCalls = {}
  /\ problemsTopicId = TRUE
  /\ replyTokens = [u \in Users |-> 0]
  /\ pendingReplies = [u \in Users |-> NoPending]
  /\ timers = [u \in Users |-> {}]
  /\ aiPausedUsers = {}
  /\ blockedUsers = {}
  /\ currentStep = [u \in Users |-> "awaiting_publish_review"]
  /\ procs = {}
  /\ inbound = 0
  /\ queued = {}
  /\ turns = {}
  /\ aiCalls = {}
  /\ escalations = {}
  /\ sentFragments = {}
  /\ orders = << [orderType |-> "ad", status |-> "ready_to_publish", userId |-> "u1"] >>
  /\ \/ adminTasks =
            << [taskType |-> "publish", status |-> "posted", userId |-> "u1",
                orderId |-> 1, message |-> << "Anketa" >>, adminMessages |-> 1] >>
     \/ adminTasks =
            << [taskType |-> "publish", status |-> "media_approved", userId |-> "u1",
                orderId |-> 1, message |-> << "Anketa" >>, adminMessages |-> 1] >>
  /\ userMedia =
       { [id |-> 1, userId |-> "u1", orderId |-> 1, mediaType |-> "photo"],
         [id |-> 2, userId |-> "u1", orderId |-> 1, mediaType |-> "photo"],
         [id |-> 3, userId |-> "u1", orderId |-> 1, mediaType |-> "video"] }
  /\ approvedMedia = IF adminTasks[1].status = "media_approved"
                     THEN {[task |-> 1, media |-> userMedia]}
                     ELSE {}
  /\ adPosts = <<>>
  /\ profiles = [u \in Users |-> [gender |-> "none", adCount |-> 0]]
  /\ flows = {}
  /\ nflows = 0
  /\ mediaHandlers = {}
  /\ nmedia = 0
  /\ mediaArchiveSchemaChecked = TRUE
  /\ columnsPresent = TRUE
  /\ nschema = 0
  /\ lastProbe = "ok"
  /\ insertLog = {}
  /\ vipSubscriptions = <<>>
  /\ dropped = {}
  /\ \E archive \in BOOLEAN, public \in BOOLEAN, vip \in BOOLEAN :
       routing = [paymentsTopicId |-> TRUE, anketasTopicId |-> TRUE,
                  auditTopicId |-> TRUE, archiveTopicId |-> archive,
                  publicChannelId |-> public, vipChannelId |-> vip]
  /\ calls = {}
  /\ ncalls = 0
  /\ workerRuns = {}
  /\ nruns = 0
  /\ outcomes = {}
  /\ auditLog = {}
  /\ fulfilments = {}
  /\ publishRuns = {}

NextPublish ==
  \/ \E taskId \in 1..Len(adminTasks) :
       \E action \in ActionsOfTaskType(adminTasks[taskId].taskType) :
         handleCallbackQuery(taskId, action)
  \/ \E c \in calls : handlePublishSelect(c)
  \/ \E c \in calls, archiveOk \in BOOLEAN, publicOk \in BOOLEAN, vipOk \in BOOLEAN :
       publishAnketaTask(c, archiveOk, publicOk, vipOk)
  \/ \E c \in calls : handleMediaApprove(c)
  \/ \E c \in calls : handleMediaRejectOrReset(c)

SpecPublish == InitPublish /\ [][NextPublish]_vars

(***************************************************************************)
(* Properties of the moderation actions.                                   *)
(***************************************************************************)
Changed(o) == o.rowWritten \/ o.effects

SaysAlreadyProcessed(o) == o.answer \in {AlreadyProcessed, AlreadyPublished}

Overlapped(a, b) == a.call \in b.peers \/ b.call \in a.peers

\* C1: of the applications of one moderation action to one task, at most one
\* writes the task row or runs side effects, and once one has done so every
\* other application changes nothing and answers "already processed".
C1_ExactlyOneApplication ==
  \A a, b \in outcomes :
    (a.call # b.call /\ a.task = b.task /\ a.action = b.action) =>
      /\ ~(Changed(a) /\ Changed(b))
      /\ (Changed(a) /\ ~Changed(b)) => SaysAlreadyProcessed(b)

\* C7: of two payment decisions for one task whose handlers overlap, at most one
\* performs the status change; the one that does not runs no effects and
\* answers "already processed".
C7_OneDecisionWins ==
  \A a, b \in outcomes :
    ( /\ a.call # b.call
      /\ a.task = b.task
      /\ a.action \in {"approve", "reject"}
      /\ b.action \in {"approve", "reject"}
      /\ Overlapped(a, b) ) =>
      /\ ~(a.rowWritten /\ b.rowWritten)
      /\ ~a.rowWritten => (~a.effects /\ a.answer = AlreadyProcessed)

\* C10: an order is completed by a publish action only when the public and the
\* VIP publication both ended published (and the archive copy, when an archive
\* topic is configured, was sent); a publish action with a destination failed or
\* not published leaves the order status as it was.
C10_CompletedOnlyIfAllPublished ==
  /\ \A i \in 1..Len(orders) :
       orders[i].status = "completed" =>
         \E r \in publishRuns :
           /\ r.order = i
           /\ r.publicStatus = "published"
           /\ r.vipStatus = "published"
           /\ r.archive \in {"sent", "unconfigured"}
  /\ \A r \in publishRuns :
       (r.publicStatus # "published" \/ r.vipStatus # "published") =>
         r.orderAfter = r.orderBefore

\* C10 witness: the public channel took the post, the VIP channel failed, and
\* the order is still ready_to_publish.
C10_Witness ==
  \E r \in publishRuns :
    /\ r.publicStatus = "published"
    /\ r.vipStatus = "failed"
    /\ r.orderBefore = "ready_to_publish"
    /\ orders[r.order].status = "ready_to_publish"

(***************************************************************************)
(* OrderLedger: handleOrderFlow and createOrder.                           *)
(***************************************************************************)
contactPrice == 99000
vipPrice == 490000
adPrice == 90000

\* the inbound texts of the order model and what the intent classifiers
\* (isAdIntent, isVipIntent, parseContactIntent, isAffirmative, isNegative,
\* parseGender) answer for them
OrderTexts == {"e'lon bermoqchiman", "vip kanal", "123", "ha", "yo'q", "ayol"}

isAdIntent(text) == text = "e'lon bermoqchiman"
isVipIntent(text) == text = "vip kanal"
parseContactIntent(text) == text = "123"
isAffirmative(text) == text = "ha"
isNegative(text) == text = "yo'q"
parseGender(text) == IF text = "ayol" THEN "female" ELSE "none"

computeAdPrice_AlwaysFee(gender, adCount) == adPrice

computeAdPrice(gender, adCount) ==
  IF gender = "female" /\ adCount = 0 THEN 0 ELSE adPrice

getOpenAdOrder(rows, userId) ==
  LET open == {i \in 1..Len(rows) :
                 /\ rows[i].userId = userId
                 /\ rows[i].orderType = "ad"
                 /\ rows[i].status \in OpenOrderStatuses}
  IN IF open = {} THEN 0 ELSE CHOOSE i \in open : \A j \in open : j <= i

\* resolveCurrentStep: the step it leaves in user_profiles.current_step
resolveCurrentStep(persisted, inferred) ==
  IF persisted = "escalated_to_admin" THEN persisted
  ELSE IF inferred # "idle" /\ inferred # persisted THEN inferred
  ELSE persisted

\* handleIncomingMessage up to the first reads of handleOrderFlow, for a text
\* message without attachment: the message is stored, then dropped when the
\* sender is blocked or paused; otherwise getLatestOpenOrder and
\* resolveCurrentStep
handleOrderFlowRead(u, text) ==
  /\ nflows < MaxOrderMessages
  /\ modelConfigured
  /\ nflows' = nflows + 1
  /\ IF isUserBlocked(u) \/ isAiPausedForUser(u)
     THEN /\ dropped' = dropped \cup
               {[kind |-> "text", id |-> nflows + 1, user |-> u,
                 blocked |-> isUserBlocked(u)]}
          /\ UNCHANGED << flows, currentStep >>
     ELSE LET openOrder == getLatestOpenOrder(orders, u)
          IN /\ flows' = flows \cup
                  {[id |-> nflows + 1, media |-> 0, user |-> u, text |-> text,
                    openOrder |-> openOrder,
                    orderType |-> IF openOrder = 0 THEN "none"
                                  ELSE orders[openOrder].orderType,
                    status |-> IF openOrder = 0 THEN "none"
                               ELSE orders[openOrder].status]}
             /\ currentStep' = [currentStep EXCEPT ![u] =
                  resolveCurrentStep(@, StepOfOrder(orders, openOrder))]
             /\ UNCHANGED dropped
  /\ UNCHANGED << cfgVars, slotVars, aiPausedUsers, blockedUsers, procs, debLogVars,
                  dbVars, subVars, botVars, mediaVars, modLogVars >>

\* the value handleOrderFlow returns: true when one of its branches answered
\* the message, false when the message is left to the buffered AI reply
handledByOrderFlow(f) ==
  \/ f.openOrder # 0 /\ f.orderType = "ad" /\ f.status = "awaiting_gender"
  \/ f.openOrder # 0 /\ f.orderType = "ad" /\ isAdIntent(f.text)
  \/ f.openOrder # 0 /\ f.status = "awaiting_payment"
       /\ (isAffirmative(f.text) \/ isNegative(f.text))
  \/ parseContactIntent(f.text)
  \/ isVipIntent(f.text)
  \/ isAdIntent(f.text)

\* createOrder, followed for a free ad by handleAdPaymentApproved
createOrder(orderType, userId, amount, status) ==
  /\ orders' = Append(orders,
       [orderType |-> orderType, status |-> status, userId |-> userId,
        amount |-> amount])
  /\ currentStep' = [currentStep EXCEPT ![userId] =
       resolveStepFromOrderState(orderType, status)]

\* an update of the order row read at the start of the handler
writeOrder(f, amount, status, step) ==
  /\ orders' = [orders EXCEPT ![f.openOrder].status = status,
                              ![f.openOrder].amount = amount]
  /\ currentStep' = [currentStep EXCEPT ![f.user] = step]

\* handleOrderFlow after its reads: the branch taken for the text and the open
\* order that was read, with its writes and its reply
handleOrderFlowAct(f) ==
  /\ f \in flows
  /\ flows' = flows \ {f}
  /\ LET u == f.user
         text == f.text
         open == f.openOrder # 0
         profile == profiles[u]
         gender == parseGender(text)
         kept == IF open THEN orders[f.openOrder].amount ELSE 0
     IN IF open /\ f.orderType = "ad" /\ f.status = "awaiting_gender"
        THEN IF isNegative(text)
             THEN /\ writeOrder(f, kept, "cancelled", "idle")
                  /\ UNCHANGED profiles
             ELSE IF gender = "none"
             THEN UNCHANGED << orders, currentStep, profiles >>
             ELSE /\ profiles' = [profiles EXCEPT ![u].gender = gender]
                  /\ IF computeAdPrice(gender, profile.adCount) = 0
                     THEN writeOrder(f, 0, "awaiting_content", "awaiting_candidate_media")
                     ELSE writeOrder(f, computeAdPrice(gender, profile.adCount),
                                     "awaiting_payment",
                                     resolveStepFromOrderState("ad", "awaiting_payment"))
        ELSE IF open /\ f.orderType = "ad" /\ isAdIntent(text)
        THEN UNCHANGED << orders, currentStep, profiles >>
        ELSE IF open /\ f.status = "awaiting_payment" /\ isAffirmative(text)
        THEN /\ writeOrder(f, kept, "awaiting_check", "awaiting_payment_receipt")
             /\ UNCHANGED profiles
        ELSE IF open /\ f.status = "awaiting_payment" /\ isNegative(text)
        THEN /\ writeOrder(f, kept, "cancelled", "idle")
             /\ UNCHANGED profiles
        ELSE IF parseContactIntent(text)
        THEN /\ createOrder("contact", u, contactPrice, "awaiting_payment")
             /\ UNCHANGED profiles
        ELSE IF isVipIntent(text)
        THEN /\ createOrder("vip", u, vipPrice, "awaiting_payment")
             /\ UNCHANGED profiles
        ELSE IF isAdIntent(text)
        THEN /\ IF profile.gender = "none"
                THEN createOrder("ad", u, 0, "awaiting_gender")
                ELSE IF computeAdPrice(profile.gender, profile.adCount) = 0
                THEN /\ orders' = Append(orders,
                          [orderType |-> "ad", status |-> "awaiting_content",
                           userId |-> u, amount |-> 0])
                     /\ currentStep' = [currentStep EXCEPT ![u] =
                                          "awaiting_candidate_media"]
                ELSE createOrder("ad", u,
                                 computeAdPrice(profile.gender, profile.adCount),
                                 "awaiting_payment")
             /\ UNCHANGED profiles
        ELSE UNCHANGED << orders, currentStep, profiles >>
  /\ IF handledByOrderFlow(f)
     THEN /\ sendAdminResponse(f.user, << "Buyurtma javobi" >>)
          /\ UNCHANGED << pendingReplies, timers, queued >>
     ELSE /\ queueBufferedReply(f.user, f.id, << f.text >>)
          /\ UNCHANGED procs
  /\ UNCHANGED << cfgVars, aiPausedUsers, blockedUsers, inbound, turns, aiCalls,
                  escalations, sentFragments, adminTasks, userMedia, adPosts,
                  botVars, nflows, mediaVars, subVars, inboxVars, modLogVars >>

\* a user without orders; the profile may already hold a gender and a
\* published ad
InitOrders ==
  /\ modelConfigured = TRUE
  /\ startup = Serving
  /\ stepCalls = {}
  /\ nstepCalls = 0
  /\ anketaCalls = {}
  /\ approvedMedia = {}
  /\ problemsTopicId = TRUE
  /\ replyTokens = [u \in Users |-> 0]
  /\ pendingReplies = [u \in Users |-> NoPending]
  /\ timers = [u \in Users |-> {}]
  /\ aiPausedUsers = {}
  /\ blockedUsers = {}
  /\ currentStep = [u \in Users |-> "idle"]
  /\ procs = {}
  /\ inbound = 0
  /\ queued = {}
  /\ turns = {}
  /\ aiCalls = {}
  /\ escalations = {}
  /\ sentFragments = {}
  /\ adminTasks = <<>>
  /\ orders = <<>>
  /\ userMedia = {}
  /\ adPosts = <<>>
  /\ \E gender \in {"none", "male", "female"}, adCount \in {0, 1} :
       /\ gender = "none" => adCount = 0
       /\ profiles = [u \in Users |-> [gender |-> gender, adCount |-> adCount]]
  /\ routing = NoRouting
  /\ calls = {}
  /\ ncalls = 0
  /\ workerRuns = {}
  /\ nruns = 0
  /\ flows = {}
  /\ nflows = 0
  /\ mediaHandlers = {}
  /\ nmedia = 0
  /\ mediaArchiveSchemaChecked = TRUE
  /\ columnsPresent = TRUE
  /\ nschema = 0
  /\ lastProbe = "ok"
  /\ insertLog = {}
  /\ vipSubscriptions = <<>>
  /\ dropped = {}
  /\ outcomes = {}
  /\ auditLog = {}
  /\ fulfilments = {}
  /\ publishRuns = {}

NextOrders ==
  \/ \E u \in Users, text \in OrderTexts : handleOrderFlowRead(u, text)
  \/ \E f \in flows : handleOrderFlowAct(f)

SpecOrders == InitOrders /\ [][NextOrders]_vars

OpenAdOrders(userId) ==
  {i \in 1..Len(orders) :
     /\ orders[i].userId = userId
     /\ orders[i].orderType = "ad"
     /\ orders[i].status \in OpenOrderStatuses}

\* C3: every user has at most one ad order in an open status, so an ad request
\* made while one is open never adds a second open ad order.
C3_OneOpenAdOrder ==
  \A u \in Users : Cardinality(OpenAdOrders(u)) <= 1

\* ---------------------------------------------------------------------------
\* Media routing: forwardIncomingMedia for a photo or a video without caption,
\* as handleIncomingMessage calls it. The awaits of the handler are the points
\* where other handlers and schema migrations interleave.
\* ---------------------------------------------------------------------------

MediaTypes == { "photo", "video" }

candidateStepSet ==
  { "awaiting_candidate_media", "candidate_media_ready", "awaiting_publish_review" }

MediaStatuses == { "payment_submitted", "awaiting_content", "ready_to_publish" }

\* the order statuses handlePaymentReceiptMedia accepts a receipt for
PaymentReceiptStatuses == {"awaiting_payment", "awaiting_check", "payment_submitted"}

\* resolveMessageContent of a message that has an attachment and no caption
MediaContent == "[media]"

MediaCaptions == { MediaContent, "chek" }

isPaymentEvidence(text) == text = "chek"

\* forwardIncomingMedia returns normally: handleIncomingMessage goes on with the
\* same message
MediaReturns(h) ==
  mediaHandlers' = (mediaHandlers \ {h}) \cup {[h EXCEPT !.pc = "routed"]}

restOfMedia ==
  << cfgVars, pendingReplies, timers, aiPausedUsers, blockedUsers, debLogVars,
     adminTasks, orders, adPosts, profiles, botVars, flowVars, subVars, modLogVars >>

\* the handler throws a MediaArchiveReadinessError or a
\* MediaArchiveConnectivityError: handleIncomingMessage catches it and calls
\* notifyMediaArchiveFailure
notifyMediaArchiveFailure(h) ==
  /\ mediaHandlers' = mediaHandlers \ {h}
  /\ sendAdminResponse(h.user, << "Media saqlash vaqtincha to'xtatildi." >>)

\* handleIncomingMessage for a photo or video: the message is stored, then
\* dropped when the sender is blocked or paused; otherwise forwardIncomingMedia
\* up to the await inside ensureMediaArchiveSchemaReadiness: getLatestOpenOrder,
\* resolveCurrentStep, and the flag test, which sets the flag before the probe
\* is awaited
forwardIncomingMedia(u, mediaType, incomingText) ==
  /\ nmedia < MaxMedia
  /\ modelConfigured
  /\ nmedia' = nmedia + 1
  /\ IF isUserBlocked(u) \/ isAiPausedForUser(u)
     THEN /\ dropped' = dropped \cup
               {[kind |-> mediaType, id |-> nmedia + 1, user |-> u,
                 blocked |-> isUserBlocked(u)]}
          /\ UNCHANGED << currentStep, mediaHandlers, mediaArchiveSchemaChecked >>
     ELSE LET openOrder == getLatestOpenOrder(orders, u)
              step == resolveCurrentStep(currentStep[u],
                                         StepOfOrder(orders, openOrder))
              expectsPaymentReceipt ==
                step = "awaiting_payment_receipt" \/ isPaymentEvidence(incomingText)
              receipt ==
                /\ openOrder # 0
                /\ expectsPaymentReceipt
                /\ routing.paymentsTopicId
                /\ orders[openOrder].status \in PaymentReceiptStatuses
          IN /\ currentStep' = [currentStep EXCEPT ![u] = step]
             /\ mediaHandlers' = mediaHandlers \cup
                  {[id |-> nmedia + 1, user |-> u, mediaType |-> mediaType,
                    text |-> incomingText, step |-> step,
                    openOrder |-> openOrder, openAdOrder |-> 0,
                    pc |-> IF receipt THEN "receipt"
                           ELSE IF mediaArchiveSchemaChecked THEN "caps"
                           ELSE "probe"]}
             /\ mediaArchiveSchemaChecked' =
                  IF receipt THEN mediaArchiveSchemaChecked ELSE TRUE
             /\ UNCHANGED dropped
  /\ UNCHANGED << restOfMedia, replyTokens, procs, userMedia, columnsPresent, nschema,
                  lastProbe, insertLog >>

\* assertMediaArchiveSchemaReadiness returns to ensureMediaArchiveSchemaReadiness:
\* the columns are there, some are missing, or the database was unreachable
probeReturn(h, connected) ==
  /\ h \in mediaHandlers
  /\ h.pc = "probe"
  /\ IF connected /\ columnsPresent
     THEN /\ lastProbe' = "ok"
          /\ mediaHandlers' = (mediaHandlers \ {h}) \cup {[h EXCEPT !.pc = "caps"]}
          /\ UNCHANGED << mediaArchiveSchemaChecked, replyTokens, procs >>
     ELSE /\ lastProbe' = IF connected THEN "missing" ELSE lastProbe
          /\ mediaArchiveSchemaChecked' = FALSE
          /\ notifyMediaArchiveFailure(h)
  /\ UNCHANGED << restOfMedia, currentStep, userMedia, nmedia, columnsPresent, nschema,
                  insertLog, inboxVars >>

\* getOpenAdOrder, the status gate and the limits on getAdMediaCounts
checkMediaLimits(h) ==
  /\ h \in mediaHandlers
  /\ h.pc = "caps"
  /\ LET openAdOrder == getOpenAdOrder(orders, h.user)
         counts == getAdMediaCounts(h.user, openAdOrder)
         refused ==
           /\ openAdOrder # 0
           /\ \/ orders[openAdOrder].status \notin MediaStatuses
              \/ h.mediaType = "photo" /\ counts.photos >= 2
              \/ h.mediaType = "video" /\ counts.videos >= 1
     IN IF refused
        THEN /\ MediaReturns(h)
             /\ sendAdminResponse(h.user, << "Ortiqcha yubormang." >>)
        ELSE /\ mediaHandlers' = (mediaHandlers \ {h}) \cup
                  {[h EXCEPT !.pc = "store", !.openAdOrder = openAdOrder]}
             /\ UNCHANGED << replyTokens, procs >>
  /\ UNCHANGED << restOfMedia, currentStep, userMedia, nmedia, mediaArchiveSchemaChecked,
                  columnsPresent, nschema, lastProbe, insertLog, inboxVars >>

\* syncCandidateMediaCurrentStep over a value of the user_media table
syncCandidateMediaCurrentStep(rows, userId, orderId) ==
  LET mine == {m \in rows : m.userId = userId /\ m.orderId = orderId}
      photos == Cardinality({m \in mine : m.mediaType = "photo"})
      videos == Cardinality({m \in mine : m.mediaType = "video"})
  IN IF photos >= 2 /\ videos >= 1 THEN "candidate_media_ready"
     ELSE "awaiting_candidate_media"

\* storeUserMedia and the rest of forwardIncomingMedia: the insert names the
\* archive columns, so it fails with a missing-column error when they are not
\* there; otherwise the row is stored under the open ad order read again here,
\* the step is synchronised and, in a candidate step, the user gets an answer
storeUserMedia(h) ==
  /\ h \in mediaHandlers
  /\ h.pc = "store"
  /\ IF columnsPresent
     THEN LET openAdOrder == getOpenAdOrder(orders, h.user)
              row == [id |-> h.id, userId |-> h.user, orderId |-> openAdOrder,
                      mediaType |-> h.mediaType]
          IN /\ userMedia' = userMedia \cup {row}
             /\ insertLog' = insertLog \cup
                  {[id |-> h.id, afterProbe |-> lastProbe]}
             /\ currentStep' =
                  IF h.openAdOrder # 0
                  THEN [currentStep EXCEPT ![h.user] =
                          syncCandidateMediaCurrentStep(userMedia', h.user, h.openAdOrder)]
                  ELSE currentStep
             /\ IF h.step \in candidateStepSet
                THEN /\ MediaReturns(h)
                     /\ sendAdminResponse(h.user, << "Qabul qilindi." >>)
                ELSE /\ MediaReturns(h)
                     /\ UNCHANGED << replyTokens, procs >>
             /\ UNCHANGED mediaArchiveSchemaChecked
     ELSE /\ mediaArchiveSchemaChecked' = FALSE
          /\ notifyMediaArchiveFailure(h)
          /\ UNCHANGED << userMedia, insertLog, currentStep >>
  /\ UNCHANGED << restOfMedia, nmedia, columnsPresent, nschema, lastProbe, inboxVars >>

\* handlePaymentReceiptMedia after forwardMessageToTopic: a receipt that is not
\* a photo is bounced; a photo sets the order read at the start to
\* payment_submitted, writes the step and creates a payment task
handlePaymentReceiptMedia(h) ==
  /\ h \in mediaHandlers
  /\ h.pc = "receipt"
  /\ MediaReturns(h)
  /\ IF h.mediaType # "photo"
     THEN /\ currentStep' = [currentStep EXCEPT ![h.user] = "awaiting_payment_receipt"]
          /\ sendAdminResponse(h.user, << "To'lov cheki rasm bo'lishi kerak." >>)
          /\ UNCHANGED << orders, adminTasks >>
     ELSE /\ orders' = [orders EXCEPT ![h.openOrder].status = "payment_submitted"]
          /\ currentStep' = [currentStep EXCEPT ![h.user] = "payment_receipt_submitted"]
          /\ createAdminTask("payment", h.user, h.openOrder, <<>>)
          /\ sendAdminResponse(h.user, << "Chek rasmi qabul qilindi." >>)
  /\ UNCHANGED << cfgVars, pendingReplies, timers, aiPausedUsers, blockedUsers,
                  debLogVars, userMedia, adPosts, profiles, botVars, flowVars,
                  subVars, modLogVars, nmedia, mediaArchiveSchemaChecked,
                  columnsPresent, nschema, lastProbe, insertLog, inboxVars >>

\* handleIncomingMessage after forwardIncomingMedia has returned: the first
\* reads of handleOrderFlow for the same message (maybeCreateAnketaTask does
\* nothing for a text that is not an anketa)
handleOrderFlowReadAfterMedia(h) ==
  /\ h \in mediaHandlers
  /\ h.pc = "routed"
  /\ mediaHandlers' = mediaHandlers \ {h}
  /\ LET openOrder == getLatestOpenOrder(orders, h.user)
     IN /\ flows' = flows \cup
             {[id |-> MaxOrderMessages + h.id, media |-> h.id, user |-> h.user,
               text |-> h.text, openOrder |-> openOrder,
               orderType |-> IF openOrder = 0 THEN "none"
                             ELSE orders[openOrder].orderType,
               status |-> IF openOrder = 0 THEN "none"
                          ELSE orders[openOrder].status]}
        /\ currentStep' = [currentStep EXCEPT ![h.user] =
             resolveCurrentStep(@, StepOfOrder(orders, openOrder))]
  /\ UNCHANGED << cfgVars, slotVars, aiPausedUsers, blockedUsers, procs, debLogVars,
                  dbVars, subVars, botVars, nflows, nmedia, mediaArchiveSchemaChecked,
                  columnsPresent, nschema, lastProbe, insertLog, inboxVars,
                  modLogVars >>

\* a migration adds the archive columns of user_media, or a rollback drops them
migrateSchema ==
  /\ nschema < MaxSchemaChanges
  /\ nschema' = nschema + 1
  /\ columnsPresent' = ~columnsPresent
  /\ UNCHANGED << debVars, dbVars, subVars, botVars, flowVars, modLogVars, mediaHandlers,
                  nmedia, mediaArchiveSchemaChecked, lastProbe, insertLog, inboxVars >>

\* the rows of an ad order for which two photos were stored earlier
TwoPhotosStored ==
  { [id |-> 11, userId |-> "u1", orderId |-> 1, mediaType |-> "photo"],
    [id |-> 12, userId |-> "u1", orderId |-> 1, mediaType |-> "photo"] }

\* a user with an ad order waiting for content (no media yet, or two photos
\* stored), or an idle user without any order, after a startup probe that
\* succeeded
InitMedia ==
  /\ modelConfigured = TRUE
  /\ startup = Serving
  /\ stepCalls = {}
  /\ nstepCalls = 0
  /\ anketaCalls = {}
  /\ approvedMedia = {}
  /\ problemsTopicId = TRUE
  /\ replyTokens = [u \in Users |-> 0]
  /\ pendingReplies = [u \in Users |-> NoPending]
  /\ timers = [u \in Users |-> {}]
  /\ aiPausedUsers = {}
  /\ blockedUsers = {}
  /\ procs = {}
  /\ inbound = 0
  /\ queued = {}
  /\ turns = {}
  /\ aiCalls = {}
  /\ escalations = {}
  /\ sentFragments = {}
  /\ adminTasks = <<>>
  /\ \/ /\ orders = << [orderType |-> "ad", status |-> "awaiting_content",
                         userId |-> "u1"] >>
        /\ currentStep = [u \in Users |-> "awaiting_candidate_media"]
        /\ userMedia \in {{}, TwoPhotosStored}
     \/ /\ orders = <<>>
        /\ currentStep = [u \in Users |-> "idle"]
        /\ userMedia = {}
  /\ adPosts = <<>>
  /\ profiles = [u \in Users |-> [gender |-> "female", adCount |-> 0]]
  /\ routing = NoRouting
  /\ calls = {}
  /\ ncalls = 0
  /\ workerRuns = {}
  /\ nruns = 0
  /\ flows = {}
  /\ nflows = 0
  /\ mediaHandlers = {}
  /\ nmedia = 0
  /\ mediaArchiveSchemaChecked = TRUE
  /\ columnsPresent = TRUE
  /\ nschema = 0
  /\ lastProbe = "ok"
  /\ insertLog = {}
  /\ vipSubscriptions = <<>>
  /\ dropped = {}
  /\ outcomes = {}
  /\ auditLog = {}
  /\ fulfilments = {}
  /\ publishRuns = {}

NextMedia ==
  \/ \E u \in Users, mediaType \in MediaTypes :
       forwardIncomingMedia(u, mediaType, MediaContent)
  \/ \E h \in mediaHandlers, connected \in BOOLEAN : probeReturn(h, connected)
  \/ \E h \in mediaHandlers : checkMediaLimits(h)
  \/ \E h \in mediaHandlers : storeUserMedia(h)
  \/ migrateSchema
  \/ \E p \in procs : FragmentCheck(p) /\ UNCHANGED restOfDebounce
  \/ \E p \in procs : FragmentSend(p) /\ UNCHANGED restOfDebounce

SpecMedia == InitMedia /\ [][NextMedia]_vars

MediaRowsOf(orderId, mediaType) ==
  {m \in userMedia : m.orderId = orderId /\ m.mediaType = mediaType}

\* C4: in every reachable state each ad order has at most 2 photo rows and at
\* most 1 video row in user_media, however the handling of the user's media
\* messages interleaves.
C4_MediaLimits ==
  \A i \in 1..Len(orders) :
    orders[i].orderType = "ad" =>
      /\ Cardinality(MediaRowsOf(i, "photo")) <= 2
      /\ Cardinality(MediaRowsOf(i, "video")) <= 1

\* C5: once a schema probe has reported missing columns, no handler inserts a
\* user_media row until a later probe has completed successfully; so no insert
\* happens while the probe that completed last is one that reported missing
\* columns.
C5_NoInsertAfterFailedProbe ==
  \A e \in insertLog : e.afterProbe # "missing"

(***************************************************************************)
(* Properties of ad pricing.                                               *)
(***************************************************************************)
\* the handler f of an ad request completes in this step, and the open order it
\* had read was not an ad order
AdRequestCompletes(f) ==
  /\ f \in flows
  /\ flows' = flows \ {f}
  /\ isAdIntent(f.text)
  /\ ~(f.openOrder # 0 /\ f.orderType = "ad")

\* C11: an ad request by a profile with gender female creates one ad order;
\* with adCount 0 its amount is 0 and its status awaiting_content (the first ad
\* is free), with adCount 1 its amount is the fixed fee and its status
\* awaiting_payment.
C11_FemaleAdPricing ==
  [][ \A f \in flows :
        (AdRequestCompletes(f) /\ profiles[f.user].gender = "female") =>
          /\ Len(orders') = Len(orders) + 1
          /\ LET new == orders'[Len(orders')]
                 adCount == profiles[f.user].adCount
             IN /\ new.orderType = "ad"
                /\ new.userId = f.user
                /\ adCount = 0 => new.amount = 0 /\ new.status = "awaiting_content"
                /\ adCount = 1 => new.amount = adPrice /\ new.status = "awaiting_payment"
    ]_vars

\* C11 witness: the first ad of a female profile was created free of charge and
\* waits for content.
C11_Witness ==
  \E i \in 1..Len(orders) :
    /\ orders[i].orderType = "ad"
    /\ orders[i].amount = 0
    /\ orders[i].status = "awaiting_content"
    /\ profiles[orders[i].userId] = [gender |-> "female", adCount |-> 0]
    /\ currentStep[orders[i].userId] = "awaiting_candidate_media"

(***************************************************************************)
(* Pause and escalation with the handler split at its awaits: the pause    *)
(* and block checks of handleIncomingMessage (handleOrderFlowRead) and its *)
(* call of queueBufferedReply (handleOrderFlowAct) are separate steps, and *)
(* the timer callbacks and AI calls of the debouncer run in between.       *)
(***************************************************************************)
PauseTexts == { "Salom", "firibgar" }

InitPause ==
  /\ InitOrders
  /\ profiles = [u \in Users |-> [gender |-> "none", adCount |-> 0]]

NextPause ==
  \/ \E u \in Users, text \in PauseTexts : handleOrderFlowRead(u, text)
  \/ \E f \in flows : handleOrderFlowAct(f)
  \/ \E u \in Users : \E token \in timers[u] :
       processBufferedReply(u, token) /\ UNCHANGED restOfDebounce
  \/ \E p \in procs : EscalationCheck(p) /\ UNCHANGED restOfDebounce
  \/ \E p \in procs : AiFail(p) /\ UNCHANGED restOfDebounce
  \/ \E p \in procs, responseText \in AiResponses, postingContext \in BOOLEAN :
       AiReturn(p, responseText, postingContext) /\ UNCHANGED restOfDebounce
  \/ \E p \in procs : FragmentCheck(p) /\ UNCHANGED restOfDebounce
  \/ \E p \in procs : FragmentSend(p) /\ UNCHANGED restOfDebounce

SpecPause == InitPause /\ [][NextPause]_vars

\* C12: no fragment of an AI reply is sent to a user while the user's pause
\* flag is set.
C12_NoAiReplyWhilePaused ==
  [][ \A p \in procs :
        ( /\ p.kind = "ai"
          /\ p.pc = "typing"
          /\ p \notin procs'
          /\ sentFragments' # sentFragments ) =>
          p.user \notin aiPausedUsers
    ]_vars

\* C14: whenever an escalation trigger has fired (keyword match or sentinel
\* response), the user's pause flag is set, the persisted step is
\* escalated_to_admin and an escalation task with status pending carrying the
\* combined text exists.
C14_EscalationEffects ==
  \A e \in escalations :
    \A u \in Users :
      /\ u \in aiPausedUsers
      /\ currentStep[u] = "escalated_to_admin"
      /\ \E i \in 1..Len(adminTasks) :
           /\ adminTasks[i].taskType = "escalation"
           /\ adminTasks[i].status = "pending"
           /\ adminTasks[i].userId = u
           /\ adminTasks[i].message = e.text

(***************************************************************************)
(* Escalation resolution (resume, block) together with the inbound message *)
(* handlers.                                                               *)
(***************************************************************************)
\* no handler in flight, nothing observed yet, the startup schema probe passed
NoActivity ==
  /\ replyTokens = [u \in Users |-> 0]
  /\ pendingReplies = [u \in Users |-> NoPending]
  /\ timers = [u \in Users |-> {}]
  /\ procs = {}
  /\ inbound = 0
  /\ queued = {}
  /\ turns = {}
  /\ aiCalls = {}
  /\ escalations = {}
  /\ sentFragments = {}
  /\ calls = {}
  /\ ncalls = 0
  /\ workerRuns = {}
  /\ nruns = 0
  /\ flows = {}
  /\ nflows = 0
  /\ mediaHandlers = {}
  /\ nmedia = 0
  /\ mediaArchiveSchemaChecked = TRUE
  /\ columnsPresent = TRUE
  /\ nschema = 0
  /\ lastProbe = "ok"
  /\ insertLog = {}
  /\ dropped = {}
  /\ outcomes = {}
  /\ auditLog = {}
  /\ fulfilments = {}
  /\ publishRuns = {}

AllRouting ==
  [paymentsTopicId |-> TRUE, anketasTopicId |-> TRUE, auditTopicId |-> TRUE,
   archiveTopicId |-> TRUE, publicChannelId |-> TRUE, vipChannelId |-> TRUE]

BlockTexts == { "Salom", "vip kanal" }

\* an escalated (paused) user with an ad order waiting for content; the
\* escalation task has been posted to the problems topic
InitBlock ==
  /\ NoActivity
  /\ modelConfigured = TRUE
  /\ startup = Serving
  /\ stepCalls = {}
  /\ nstepCalls = 0
  /\ anketaCalls = {}
  /\ approvedMedia = {}
  /\ problemsTopicId = TRUE
  /\ aiPausedUsers = Users
  /\ blockedUsers = {}
  /\ currentStep = [u \in Users |-> "escalated_to_admin"]
  /\ orders = << [orderType |-> "ad", status |-> "awaiting_content", userId |-> "u1",
                  amount |-> 0] >>
  /\ adminTasks =
       << [taskType |-> "escalation", status |-> "posted", userId |-> "u1",
           orderId |-> 0, message |-> << "firibgar" >>, adminMessages |-> 1] >>
  /\ userMedia = {}
  /\ adPosts = <<>>
  /\ profiles = [u \in Users |-> [gender |-> "female", adCount |-> 0]]
  /\ vipSubscriptions = <<>>
  /\ routing = AllRouting

NextBlock ==
  \/ \E taskId \in 1..Len(adminTasks) :
       \E action \in ActionsOfTaskType(adminTasks[taskId].taskType) :
         handleCallbackQuery(taskId, action)
  \/ \E c \in calls : handleEscalationSelect(c)
  \/ \E c \in calls : handleEscalationSide(c)
  \/ \E c \in calls : handleEscalationUpdate(c)
  \/ \E u \in Users, text \in BlockTexts :
       nflows + nmedia < MaxBlockMessages /\ handleOrderFlowRead(u, text)
  \/ \E f \in flows : handleOrderFlowAct(f)
  \/ \E u \in Users, mediaType \in MediaTypes :
       nflows + nmedia < MaxBlockMessages
       /\ forwardIncomingMedia(u, mediaType, MediaContent)
  \/ \E h \in mediaHandlers : checkMediaLimits(h)
  \/ \E h \in mediaHandlers : storeUserMedia(h)
  \/ \E u \in Users : \E token \in timers[u] :
       processBufferedReply(u, token) /\ UNCHANGED restOfDebounce
  \/ \E p \in procs : EscalationCheck(p) /\ UNCHANGED restOfDebounce
  \/ \E p \in procs, responseText \in AiResponses, postingContext \in BOOLEAN :
       AiReturn(p, responseText, postingContext) /\ UNCHANGED restOfDebounce
  \/ \E p \in procs : FragmentCheck(p) /\ UNCHANGED restOfDebounce
  \/ \E p \in procs : FragmentSend(p) /\ UNCHANGED restOfDebounce

SpecBlock == InitBlock /\ [][NextBlock]_vars

\* an inbound message of user u is received in this step
ArrivalOf(u) ==
  \/ \E f \in flows' \ flows : f.user = u /\ f.media = 0
  \/ nmedia' # nmedia /\ \E h \in mediaHandlers' \ mediaHandlers : h.user = u
  \/ \E d \in dropped' \ dropped : d.user = u

ResumeCompletes(c) ==
  /\ c \in calls
  /\ c.action = "resume"
  /\ c.pc = "update"
  /\ c \notin calls'
  /\ \E o \in outcomes' \ outcomes : o.call = c.id /\ o.rowWritten

\* C15: when a resume action completes, the user of its task is neither paused
\* nor blocked, has no pending buffered reply, and the persisted step is the
\* step the mapping derives from the user's latest open order.
C15_ResumePostcondition ==
  [][ \A c \in calls :
        ResumeCompletes(c) =>
          LET userId == adminTasks[c.task].userId
          IN /\ userId \notin aiPausedUsers'
             /\ userId \notin blockedUsers'
             /\ pendingReplies'[userId] = NoPending
             /\ currentStep'[userId] =
                  StepOfOrder(orders', getLatestOpenOrder(orders', userId))
    ]_vars

DecidedStatuses == {"approved", "rejected", "resolved", "blocked", "published"}

EarlierStatuses == {"pending", "posted", "media_ready", "media_approved"}

\* C16: no step moves an admin task from a decided status (approved, rejected,
\* resolved, blocked, published) back to pending, posted, media_ready or
\* media_approved.
C16_StatusMonotonic ==
  [][ \A i \in 1..Len(adminTasks) :
        adminTasks[i].status \in DecidedStatuses =>
          adminTasks'[i].status \notin EarlierStatuses
    ]_vars

AdPostsOfTask(taskId) == {i \in 1..Len(adPosts) : adPosts[i].taskId = taskId}

\* C17: in every reachable state a publish task has at most one ad_posts row.
C17_OneAdPostPerTask ==
  \A i \in 1..Len(adminTasks) :
    adminTasks[i].taskType = "publish" => Cardinality(AdPostsOfTask(i)) <= 1

(***************************************************************************)
(* VipSubscriptions: renewal of a subscription and the daily expiry job.   *)
(***************************************************************************)
\* handleVipCron, for one row of its select of active rows: a row whose expiry
\* date has passed is set to expired and the user is told
handleVipCron(i) ==
  /\ i \in 1..Len(vipSubscriptions)
  /\ vipSubscriptions[i].status = "active"
  /\ vipSubscriptions' = [vipSubscriptions EXCEPT ![i].status = "expired"]
  /\ sendAdminResponse(vipSubscriptions[i].userId, << "VIP obuna muddati tugadi." >>)
  /\ UNCHANGED << cfgVars, pendingReplies, timers, aiPausedUsers, blockedUsers,
                  currentStep, debLogVars, dbVars, botVars, flowVars, mediaVars,
                  inboxVars, modLogVars >>

\* a subscriber whose first VIP order was completed has sent the receipt of a
\* second VIP order; its payment task waits for the worker
InitVip ==
  /\ NoActivity
  /\ modelConfigured = TRUE
  /\ startup = Serving
  /\ stepCalls = {}
  /\ nstepCalls = 0
  /\ anketaCalls = {}
  /\ approvedMedia = {}
  /\ problemsTopicId = TRUE
  /\ aiPausedUsers = {}
  /\ blockedUsers = {}
  /\ currentStep = [u \in Users |-> "payment_receipt_submitted"]
  /\ orders = << [orderType |-> "vip", status |-> "completed", userId |-> "u1"],
                 [orderType |-> "vip", status |-> "payment_submitted", userId |-> "u1"] >>
  /\ adminTasks =
       << [taskType |-> "payment", status |-> "pending", userId |-> "u1",
           orderId |-> 2, message |-> <<>>, adminMessages |-> 0] >>
  /\ userMedia = {}
  /\ adPosts = <<>>
  /\ profiles = [u \in Users |-> [gender |-> "none", adCount |-> 0]]
  /\ vipSubscriptions = << [userId |-> "u1", status |-> "active"] >>
  /\ routing = AllRouting

NextVip ==
  \/ processPendingTasks
  \/ \E w \in workerRuns, sent \in BOOLEAN : postTaskSend(w, sent)
  \/ \E w \in workerRuns : postTaskUpdate(w)
  \/ \E taskId \in 1..Len(adminTasks) :
       \E action \in ActionsOfTaskType(adminTasks[taskId].taskType) :
         handleCallbackQuery(taskId, action)
  \/ \E c \in calls : handlePaymentSelect(c)
  \/ \E c \in calls : handlePaymentUpdate(c)
  \/ \E c \in calls, found \in BOOLEAN : handlePaymentEffects(c, found)
  \/ \E i \in 1..Len(vipSubscriptions) : handleVipCron(i)

SpecVip == InitVip /\ [][NextVip]_vars

ActiveSubscriptions(userId) ==
  {i \in 1..Len(vipSubscriptions) :
     vipSubscriptions[i].userId = userId /\ vipSubscriptions[i].status = "active"}

\* C18: in every reachable state a user has at most one vip_subscriptions row
\* with status active.
C18_OneActiveSubscription ==
  \A u \in Users : Cardinality(ActiveSubscriptions(u)) <= 1

\* the users of the existing orders whose status this step writes
StatusWrittenFor ==
  {orders[i].userId : i \in {j \in 1..Len(orders) : orders'[j].status # orders[j].status}}

\* C19: after a step that writes the status of an order, the persisted step of
\* the order's user is escalated_to_admin or the step the mapping derives from
\* the user's latest open order (idle when none is open).
C19_StepFollowsLatestOpenOrder ==
  [][ \A u \in StatusWrittenFor :
        \/ currentStep'[u] = "escalated_to_admin"
        \/ currentStep'[u] = StepOfOrder(orders', getLatestOpenOrder(orders', u))
    ]_vars

\* the routing context of the attachment handler h is unknown: no step or order
\* status of a payment receipt, and not a candidate-collection step
UnknownContext(h) ==
  /\ h.step # "awaiting_payment_receipt"
  /\ h.step \notin candidateStepSet
  /\ LET openOrder == getLatestOpenOrder(orders, h.user)
     IN openOrder = 0 \/ orders[openOrder].status \notin PaymentReceiptStatuses

\* C20: no step inserts a user_media row for an attachment whose routing
\* context is unknown.
C20_UnknownContextStoresNothing ==
  [][ \A h \in mediaHandlers :
        UnknownContext(h) => ~ \E m \in userMedia' \ userMedia : m.id = h.id
    ]_vars

(***************************************************************************)
(* PaymentReceipts: a user with an order that waits for payment sends      *)
(* texts and attachments; payment tasks are posted and decided.            *)
(***************************************************************************)
MaxReceiptMessages == 3

ReceiptTexts == { "ha", "Salom" }

InitReceipt ==
  /\ NoActivity
  /\ modelConfigured = TRUE
  /\ startup = Serving
  /\ stepCalls = {}
  /\ nstepCalls = 0
  /\ anketaCalls = {}
  /\ approvedMedia = {}
  /\ problemsTopicId = TRUE
  /\ aiPausedUsers = {}
  /\ blockedUsers = {}
  /\ currentStep = [u \in Users |-> "awaiting_payment_confirmation"]
  /\ \E orderType \in PaymentOrderTypes :
       orders = << [orderType |-> orderType, status |-> "awaiting_payment",
                    userId |-> "u1",
                    amount |-> IF orderType = "vip" THEN vipPrice ELSE contactPrice] >>
  /\ adminTasks = <<>>
  /\ userMedia = {}
  /\ adPosts = <<>>
  /\ profiles = [u \in Users |-> [gender |-> "none", adCount |-> 0]]
  /\ vipSubscriptions = <<>>
  /\ routing = AllRouting

NextReceipt ==
  \/ \E u \in Users, text \in ReceiptTexts :
       nflows + nmedia < MaxReceiptMessages /\ handleOrderFlowRead(u, text)
  \/ \E f \in flows : handleOrderFlowAct(f)
  \/ \E u \in Users, mediaType \in MediaTypes, incomingText \in MediaCaptions :
       nflows + nmedia < MaxReceiptMessages
       /\ forwardIncomingMedia(u, mediaType, incomingText)
  \/ \E h \in mediaHandlers : handlePaymentReceiptMedia(h)
  \/ \E h \in mediaHandlers : checkMediaLimits(h)
  \/ \E h \in mediaHandlers : storeUserMedia(h)
  \/ \E h \in mediaHandlers : handleOrderFlowReadAfterMedia(h)

SpecReceipt == InitReceipt /\ [][NextReceipt]_vars

\* C21: a photo that arrives while the sender's open order is awaiting_payment,
\* awaiting_check or payment_submitted goes to the payment-receipt pipeline,
\* whatever the persisted step and the caption.
C21_PhotoOfPayingOrderIsReceipt ==
  [][ \A h \in mediaHandlers' \ mediaHandlers :
        LET openOrder == getLatestOpenOrder(orders, h.user)
        IN (/\ h.mediaType = "photo"
            /\ openOrder # 0
            /\ orders[openOrder].status \in PaymentReceiptStatuses)
           => h.pc = "receipt"
    ]_vars

\* C22: a message whose attachment was handled by media routing starts no
\* order-flow handling and no buffered reply: no step hands such a message to
\* handleOrderFlow, and no step queues the content of one for a reply.
C22_RoutedMediaStopsHandler ==
  [][ /\ \A f \in flows' \ flows : f.media = 0
      /\ \A q \in queued' \ queued : \A c \in MediaCaptions : q.content # << c >>
    ]_vars

\* the photos stored for the open ad order of the sender of h
PhotosHeldFor(h) ==
  getAdMediaCounts(h.user, getOpenAdOrder(orders, h.user)).photos

CapExceeded == << "Ortiqcha yubormang." >>

\* C23: a photo that is being handled while the sender's open ad order holds 2
\* photos adds no row for that order, and when its handling ends the user is
\* sent the cap-exceeded message.
C23_ThirdPhotoRejected ==
  [][ \A h \in mediaHandlers :
        (/\ h.mediaType = "photo"
         /\ h.pc \in {"probe", "caps"}
         /\ getOpenAdOrder(orders, h.user) # 0
         /\ PhotosHeldFor(h) >= 2)
        => /\ \A m \in userMedia' \ userMedia : m.id # h.id
           /\ (h \notin mediaHandlers' /\ \A g \in mediaHandlers' : g.id # h.id \/ g.pc = "routed")
                => \E p \in procs' \ procs :
                     p.user = h.user /\ p.frags = splitResponse(CapExceeded)
    ]_vars

(***************************************************************************)
(* ReceiptReview: the receipt of an order is under review; the moderators  *)
(* decide payment tasks while the user sends further attachments.          *)
(***************************************************************************)
MaxReviewMedia == 1

MaxReviewRuns == 1

\* the user sent a receipt photo for the order: the order is payment_submitted
\* and the payment task created for it has been posted to the review topic
InitReview ==
  /\ NoActivity
  /\ modelConfigured = TRUE
  /\ startup = Serving
  /\ stepCalls = {}
  /\ nstepCalls = 0
  /\ anketaCalls = {}
  /\ approvedMedia = {}
  /\ problemsTopicId = TRUE
  /\ aiPausedUsers = {}
  /\ blockedUsers = {}
  /\ currentStep = [u \in Users |-> "payment_receipt_submitted"]
  /\ \E orderType \in PaymentOrderTypes :
       orders = << [orderType |-> orderType, status |-> "payment_submitted",
                    userId |-> "u1",
                    amount |-> IF orderType = "vip" THEN vipPrice ELSE contactPrice] >>
  /\ adminTasks =
       << [taskType |-> "payment", status |-> "posted", userId |-> "u1",
           orderId |-> 1, message |-> <<>>, adminMessages |-> 1] >>
  /\ userMedia = {}
  /\ adPosts = <<>>
  /\ profiles = [u \in Users |-> [gender |-> "none", adCount |-> 0]]
  /\ vipSubscriptions = <<>>
  /\ routing = AllRouting

NextReview ==
  \/ nruns < MaxReviewRuns /\ processPendingTasks
  \/ \E w \in workerRuns, sent \in BOOLEAN : postTaskSend(w, sent)
  \/ \E w \in workerRuns : postTaskUpdate(w)
  \/ \E taskId \in 1..Len(adminTasks) :
       \E action \in ActionsOfTaskType(adminTasks[taskId].taskType) :
         handleCallbackQuery(taskId, action)
  \/ \E c \in calls : handlePaymentSelect(c)
  \/ \E c \in calls : handlePaymentUpdate(c)
  \/ \E c \in calls, found \in BOOLEAN : handlePaymentEffects(c, found)
  \/ \E c \in calls : handlePaymentEffectsThrow(c)
  \/ \E u \in Users, incomingText \in MediaCaptions :
       nmedia < MaxReviewMedia /\ forwardIncomingMedia(u, "photo", incomingText)
  \/ \E h \in mediaHandlers : handlePaymentReceiptMedia(h)
  \/ \E h \in mediaHandlers : checkMediaLimits(h)
  \/ \E h \in mediaHandlers : storeUserMedia(h)
  \/ \E h \in mediaHandlers : handleOrderFlowReadAfterMedia(h)
  \/ \E f \in flows : handleOrderFlowAct(f)

SpecReview == InitReview /\ [][NextReview]_vars

\* a reject of a payment task of the order has been applied
RejectApplied(orderId) ==
  \E o \in outcomes :
    o.action = "reject" /\ o.rowWritten /\ adminTasks[o.task].orderId = orderId

\* C24: an applied payment-reject leaves the order awaiting_payment; a photo the
\* user sends while the rejected order is awaiting_payment enters the receipt
\* pipeline, and the receipt pipeline sets the order to payment_submitted and
\* appends a pending payment task for it.
C24_RejectReopensForReceipt ==
  [][ /\ \A c \in calls \ calls' :
           (c.pc = "effects" /\ c.action = "reject")
           => orders'[adminTasks[c.task].orderId].status = "awaiting_payment"
      /\ \A h \in mediaHandlers' \ mediaHandlers :
           LET openOrder == getLatestOpenOrder(orders, h.user)
           IN (/\ h.mediaType = "photo"
               /\ \A g \in mediaHandlers : g.id # h.id
               /\ openOrder # 0
               /\ orders[openOrder].status = "awaiting_payment"
               /\ RejectApplied(openOrder))
              => h.pc = "receipt"
      /\ \A h \in mediaHandlers \ mediaHandlers' :
           (h.mediaType = "photo" /\ h.pc = "receipt")
           => /\ orders'[h.openOrder].status = "payment_submitted"
              /\ Len(adminTasks') = Len(adminTasks) + 1
              /\ adminTasks'[Len(adminTasks')].taskType = "payment"
              /\ adminTasks'[Len(adminTasks')].orderId = h.openOrder
              /\ adminTasks'[Len(adminTasks')].status = "pending"
    ]_vars

\* the fulfilment calls (fulfillContactOrder, activateVipOrder,
\* handleAdPaymentApproved) made for an order
FulfilmentsOf(orderId) == {x \in fulfilments : x.order = orderId}

\* C30: no order is fulfilled more than once, however many receipt photos were
\* sent for it and however many payment tasks of it are approved.
C30_OrderFulfilledOnce ==
  \A orderId \in 1..Len(orders) : Cardinality(FulfilmentsOf(orderId)) <= 1

(***************************************************************************)
(* Startup: onModuleInit of TelegramService, and the media handling that   *)
(* follows once handleIncomingMessage is attached.                         *)
(***************************************************************************)
restOfStartup ==
  << modelConfigured, problemsTopicId, stepCalls, nstepCalls, anketaCalls, approvedMedia, slotVars,
     aiPausedUsers, blockedUsers,
     currentStep, procs, debLogVars, dbVars, subVars, botVars, flowVars, inboxVars,
     modLogVars, mediaHandlers, nmedia, columnsPresent, nschema, insertLog >>

\* onModuleInit up to the await inside ensureMediaArchiveSchemaReadiness:
\* ensureUserProfileSchema, which may throw, then the flag test, which sets the
\* flag before the probe is awaited
onModuleInit(profileSchemaOk) ==
  /\ startup.pc = "init"
  /\ IF profileSchemaOk
     THEN /\ startup' = [startup EXCEPT !.pc = "probe"]
          /\ mediaArchiveSchemaChecked' = TRUE
     ELSE /\ startup' = [startup EXCEPT !.pc = "failed"]
          /\ UNCHANGED mediaArchiveSchemaChecked
  /\ UNCHANGED << restOfStartup, lastProbe >>

\* onModuleInit when the probe swallows its failure (never the code's behaviour)
startupProbeReturn_Swallow(connected) ==
  /\ startup.pc = "probe"
  /\ startup' = [startup EXCEPT
       !.pc = "loadSession",
       !.probe = IF ~connected THEN "unreachable"
                 ELSE IF columnsPresent THEN "ok" ELSE "missing"]
  /\ lastProbe' = IF connected /\ columnsPresent THEN "ok" ELSE lastProbe
  /\ UNCHANGED << restOfStartup, mediaArchiveSchemaChecked >>

\* assertMediaArchiveSchemaReadiness returns to onModuleInit: on a
\* MediaArchiveReadinessError or MediaArchiveConnectivityError the flag is
\* reset and onModuleInit throws "Media archive startup blocked"
startupProbeReturn(connected) ==
  /\ startup.pc = "probe"
  /\ IF connected /\ columnsPresent
     THEN /\ startup' = [startup EXCEPT !.pc = "loadSession", !.probe = "ok"]
          /\ lastProbe' = "ok"
          /\ UNCHANGED mediaArchiveSchemaChecked
     ELSE /\ startup' = [startup EXCEPT
               !.pc = "failed",
               !.probe = IF connected THEN "missing" ELSE "unreachable"]
          /\ lastProbe' = IF connected THEN "missing" ELSE lastProbe
          /\ mediaArchiveSchemaChecked' = FALSE
  /\ UNCHANGED restOfStartup

\* loadSession: the stored session string is read
loadSession ==
  /\ startup.pc = "loadSession"
  /\ startup' = [startup EXCEPT !.pc = "startUserbot", !.sessionLoaded = TRUE]
  /\ UNCHANGED << restOfStartup, lastProbe, mediaArchiveSchemaChecked >>

\* startUserbot: without API_ID / API_HASH it returns; otherwise the client
\* connects and handleIncomingMessage is attached, or the failed connection is
\* logged
startUserbot(credentials, connected) ==
  /\ startup.pc = "startUserbot"
  /\ startup' = [startup EXCEPT !.pc = "serving",
                                !.handlerAttached = credentials /\ connected]
  /\ UNCHANGED << restOfStartup, lastProbe, mediaArchiveSchemaChecked >>

\* the process has been created; the archive columns are there or not
InitStartup ==
  /\ modelConfigured = TRUE
  /\ problemsTopicId = TRUE
  /\ startup = [pc |-> "init", probe |-> "none", sessionLoaded |-> FALSE,
                handlerAttached |-> FALSE]
  /\ stepCalls = {}
  /\ nstepCalls = 0
  /\ anketaCalls = {}
  /\ approvedMedia = {}
  /\ replyTokens = [u \in Users |-> 0]
  /\ pendingReplies = [u \in Users |-> NoPending]
  /\ timers = [u \in Users |-> {}]
  /\ aiPausedUsers = {}
  /\ blockedUsers = {}
  /\ currentStep = [u \in Users |-> "awaiting_candidate_media"]
  /\ procs = {}
  /\ inbound = 0
  /\ queued = {}
  /\ turns = {}
  /\ aiCalls = {}
  /\ escalations = {}
  /\ sentFragments = {}
  /\ adminTasks = <<>>
  /\ orders = << [orderType |-> "ad", status |-> "awaiting_content",
                  userId |-> "u1"] >>
  /\ userMedia = {}
  /\ adPosts = <<>>
  /\ profiles = [u \in Users |-> [gender |-> "female", adCount |-> 0]]
  /\ vipSubscriptions = <<>>
  /\ routing = NoRouting
  /\ calls = {}
  /\ ncalls = 0
  /\ workerRuns = {}
  /\ nruns = 0
  /\ flows = {}
  /\ nflows = 0
  /\ mediaHandlers = {}
  /\ nmedia = 0
  /\ mediaArchiveSchemaChecked = FALSE
  /\ columnsPresent \in BOOLEAN
  /\ nschema = 0
  /\ lastProbe = "none"
  /\ insertLog = {}
  /\ dropped = {}
  /\ outcomes = {}
  /\ auditLog = {}
  /\ fulfilments = {}
  /\ publishRuns = {}

NextStartup ==
  \/ \E profileSchemaOk \in BOOLEAN : onModuleInit(profileSchemaOk)
  \/ \E connected \in BOOLEAN : startupProbeReturn(connected)
  \/ loadSession
  \/ \E credentials \in BOOLEAN, connected \in BOOLEAN :
       startUserbot(credentials, connected)
  \/ \E u \in Users, mediaType \in MediaTypes :
       startup.handlerAttached /\ forwardIncomingMedia(u, mediaType, MediaContent)
  \/ \E h \in mediaHandlers, connected \in BOOLEAN : probeReturn(h, connected)
  \/ \E h \in mediaHandlers : checkMediaLimits(h)
  \/ \E h \in mediaHandlers : storeUserMedia(h)
  \/ migrateSchema

SpecStartup == InitStartup /\ [][NextStartup]_vars

\* C26: once the startup probe has reported missing columns or an unreachable
\* database, startup has failed, the session was never loaded, the message
\* handler was never attached and no inbound message was handled.
C26_FailedProbeBlocksStartup ==
  startup.probe \in {"missing", "unreachable"}
  => /\ startup.pc = "failed"
     /\ ~startup.sessionLoaded
     /\ ~startup.handlerAttached
     /\ nmedia = 0
     /\ mediaHandlers = {}
     /\ userMedia = {}

C26_Witness ==
  /\ startup.pc = "failed"
  /\ startup.probe = "missing"
  /\ ~mediaArchiveSchemaChecked

\* C25: with the audit topic configured, every handler that has finished after
\* its status transition took effect has appended an audit entry, whether or
\* not its fulfilment or user notification succeeded.
C25_AppliedActionAudited ==
  routing.auditTopicId
  => \A o \in outcomes :
       o.rowWritten => \E a \in auditLog : a.call = o.call /\ a.task = o.task

\* C27: a buffered reply whose token was superseded after its timer fired and
\* before the keyword check and the AI call makes no AI call and no escalation,
\* and nothing is sent under its token.
C27_SupersededReplyMakesNoAiCall ==
  [][ \A p \in procs :
        (/\ p.kind = "ai"
         /\ p.pc = "history"
         /\ ~isReplyTokenActive(p.user, p.token)
         /\ p \notin procs')
        => /\ \A c \in aiCalls' \ aiCalls : c.token # p.token
           /\ \A e \in escalations' \ escalations : e.token # p.token
           /\ \A f \in sentFragments' \ sentFragments : f.token # p.token
    ]_vars

\* C28: in the step where the handling of an inbound message that ends up
\* buffered begins (its storage write and the reads of the order flow), the
\* sender's reply token is bumped; and while such a message is being handled,
\* no fragment of an earlier AI reply is sent.
C28_TokenBumpedOnArrival ==
  [][ /\ \A f \in flows' \ flows :
           ~handledByOrderFlow(f) => replyTokens'[f.user] = replyTokens[f.user] + 1
      /\ \A f \in flows :
           ~handledByOrderFlow(f)
           => \A s \in sentFragments' \ sentFragments : s.kind # "ai"
    ]_vars

(***************************************************************************)
(* StepWrites: setUserCurrentStep calls of concurrent handlers, with and   *)
(* without an expected step.                                               *)
(***************************************************************************)
MaxStepCalls == 3

\* options.expectedCurrentStep is absent
NoStep == "none"

StepValues == { "idle", "awaiting_payment_confirmation", "awaiting_payment_receipt" }

restOfStep ==
  << modelConfigured, problemsTopicId, startup, anketaCalls, approvedMedia, slotVars, aiPausedUsers, blockedUsers,
     procs, debLogVars, dbVars, subVars, botVars, flowVars, mediaVars, inboxVars,
     modLogVars >>

\* setUserCurrentStep up to its update: getOrCreateUserProfile reads the stored
\* step; the call returns when the expected step is given and differs, or when
\* the stored step already is nextStep
setUserCurrentStepRead(userId, nextStep, expectedCurrentStep) ==
  /\ nstepCalls < MaxStepCalls
  /\ nstepCalls' = nstepCalls + 1
  /\ LET stored == currentStep[userId]
     IN stepCalls' =
          IF \/ expectedCurrentStep # NoStep /\ stored # expectedCurrentStep
             \/ stored = nextStep
          THEN stepCalls
          ELSE stepCalls \cup
                 {[id |-> nstepCalls + 1, userId |-> userId, nextStep |-> nextStep,
                   expectedCurrentStep |-> expectedCurrentStep]}
  /\ UNCHANGED << restOfStep, currentStep >>

\* the update of setUserCurrentStep: update user_profiles set current_step
\* where user_id = userId
setUserCurrentStepWrite(c) ==
  /\ c \in stepCalls
  /\ stepCalls' = stepCalls \ {c}
  /\ currentStep' = [currentStep EXCEPT ![c.userId] = c.nextStep]
  /\ UNCHANGED << restOfStep, nstepCalls >>

InitStep ==
  /\ NoActivity
  /\ modelConfigured = TRUE
  /\ problemsTopicId = TRUE
  /\ startup = Serving
  /\ stepCalls = {}
  /\ nstepCalls = 0
  /\ anketaCalls = {}
  /\ approvedMedia = {}
  /\ aiPausedUsers = {}
  /\ blockedUsers = {}
  /\ currentStep = [u \in Users |-> "idle"]
  /\ orders = <<>>
  /\ adminTasks = <<>>
  /\ userMedia = {}
  /\ adPosts = <<>>
  /\ profiles = [u \in Users |-> [gender |-> "none", adCount |-> 0]]
  /\ vipSubscriptions = <<>>
  /\ routing = AllRouting

NextStep ==
  \/ \E userId \in Users, nextStep \in StepValues,
        expectedCurrentStep \in StepValues \cup {NoStep} :
       setUserCurrentStepRead(userId, nextStep, expectedCurrentStep)
  \/ \E c \in stepCalls : setUserCurrentStepWrite(c)

SpecStep == InitStep /\ [][NextStep]_vars

TerminalStatuses == {"completed", "cancelled", "failed"}

\* C31: no step changes the status of an order that is completed, cancelled or
\* failed.
C31_TerminalOrderStaysTerminal ==
  [][ \A i \in 1..Len(orders) :
        orders[i].status \in TerminalStatuses
        => orders'[i].status = orders[i].status
    ]_vars

(***************************************************************************)
(* Notifications: a subscriber writes to the account while the daily       *)
(* expiry job sends its notification.  The AI always returns a response,   *)
(* and every timer and every handler in flight eventually runs.            *)
(***************************************************************************)
MaxNotifyInbound == 2

InitNotify ==
  /\ NoActivity
  /\ modelConfigured = TRUE
  /\ startup = Serving
  /\ stepCalls = {}
  /\ nstepCalls = 0
  /\ anketaCalls = {}
  /\ approvedMedia = {}
  /\ problemsTopicId = TRUE
  /\ aiPausedUsers = {}
  /\ blockedUsers = {}
  /\ currentStep = [u \in Users |-> "idle"]
  /\ orders = << [orderType |-> "vip", status |-> "completed", userId |-> "u1"] >>
  /\ adminTasks = <<>>
  /\ userMedia = {}
  /\ adPosts = <<>>
  /\ profiles = [u \in Users |-> [gender |-> "none", adCount |-> 0]]
  /\ vipSubscriptions = << [userId |-> "u1", status |-> "active"] >>
  /\ routing = AllRouting

\* the steps the process takes by itself once they are possible
NotifyProgress ==
  \/ \E u \in Users : \E token \in timers[u] :
       processBufferedReply(u, token) /\ UNCHANGED restOfDebounce
  \/ \E p \in procs : EscalationCheck(p) /\ UNCHANGED restOfDebounce
  \/ \E p \in procs, responseText \in AiResponses :
       AiReturn(p, responseText, FALSE) /\ UNCHANGED restOfDebounce
  \/ \E p \in procs : FragmentCheck(p) /\ UNCHANGED restOfDebounce
  \/ \E p \in procs : FragmentSend(p) /\ UNCHANGED restOfDebounce

NextNotify ==
  \/ \E u \in Users, text \in InboundTexts :
       /\ inbound < MaxNotifyInbound
       /\ handleIncomingMessage(u, text)
       /\ UNCHANGED restOfDebounce
  \/ \E i \in 1..Len(vipSubscriptions) : handleVipCron(i)
  \/ NotifyProgress

SpecNotify == InitNotify /\ [][NextNotify]_vars /\ WF_vars(NotifyProgress)

\* the buffered turn queued under this token got a fragment of its AI reply
\* sent, or the conversation was escalated (by this turn, or by an earlier turn
\* whose escalation took the pending text with it)
Answered(token) ==
  \/ \E f \in sentFragments : f.token = token /\ f.kind = "ai"
  \/ \E e \in escalations : e.token <= token

\* C32: once the user has stopped writing, the turn that ends with the last
\* buffered message is answered or escalated, whatever notifications were sent
\* meanwhile.
C32_BufferedTextAnswered ==
  <>[](\A q \in queued :
         (\A r \in queued : r.token <= q.token) => Answered(q.token))

(***************************************************************************)
(* ContactReveal: the approve path of a contact order with the awaited     *)
(* send of fulfillContactOrder made explicit, while the buyer writes.      *)
(***************************************************************************)
MaxContactInbound == 2

ContactMessage == << "Kontakt: +998" >>

ContactMissing == << "Kontakt topilmadi. Admin tekshiradi." >>

\* handlePaymentCallback after a successful update of an approve of a contact
\* order: fulfillContactOrder up to its awaited sendAdminResponse, which takes a
\* fresh token and starts sendHumanizedResponse
fulfillContactOrderSend(c, found) ==
  /\ c \in calls
  /\ c.pc = "effects"
  /\ c.action = "approve"
  /\ orders[adminTasks[c.task].orderId].orderType = "contact"
  /\ LET order == orders[adminTasks[c.task].orderId]
     IN /\ sendAdminResponse(order.userId,
                             IF found THEN ContactMessage ELSE ContactMissing)
        /\ calls' = (calls \ {c}) \cup
             {[c EXCEPT !.pc = IF found THEN "revealed" ELSE "missing"]}
        /\ fulfilments' = fulfilments \cup
             {[call |-> c.id, order |-> adminTasks[c.task].orderId,
               kind |-> "contact"]}
  /\ UNCHANGED << cfgVars, pendingReplies, timers, aiPausedUsers, blockedUsers,
                  currentStep, debLogVars, dbVars, subVars, routing, ncalls,
                  workerRuns, nruns, flowVars, mediaVars, inboxVars, outcomes,
                  auditLog, publishRuns >>

\* sendAdminResponse has returned (all fragments sent, or the reply abandoned
\* at a token test): fulfillContactOrder writes the order and the step, and
\* handlePaymentCallback logs the action and answers
fulfillContactOrderDone(c) ==
  /\ c \in calls
  /\ c.pc \in {"revealed", "missing"}
  /\ ~\E p \in procs : p.kind = "admin" /\ p.user = adminTasks[c.task].userId
  /\ LET orderId == adminTasks[c.task].orderId
     IN /\ orders' = [orders EXCEPT ![orderId].status =
                        FulfilledStatus("contact", c.pc = "revealed")]
        /\ currentStep' = [currentStep EXCEPT ![orders[orderId].userId] = "idle"]
  /\ logAdminAction(c, c.action)
  /\ Finish(c, TRUE, TRUE, "Tasdiqlandi")
  /\ UNCHANGED << cfgVars, slotVars, aiPausedUsers, blockedUsers, procs, debLogVars,
                  adminTasks, userMedia, adPosts, profiles, subVars, routing, ncalls,
                  workerRuns, nruns, flowVars, mediaVars, inboxVars, fulfilments,
                  publishRuns >>

\* the buyer's receipt is under review: the payment task is posted
InitContact ==
  /\ NoActivity
  /\ modelConfigured = TRUE
  /\ startup = Serving
  /\ stepCalls = {}
  /\ nstepCalls = 0
  /\ anketaCalls = {}
  /\ approvedMedia = {}
  /\ problemsTopicId = TRUE
  /\ aiPausedUsers = {}
  /\ blockedUsers = {}
  /\ currentStep = [u \in Users |-> "payment_receipt_submitted"]
  /\ orders = << [orderType |-> "contact", status |-> "payment_submitted",
                  userId |-> "u1", amount |-> contactPrice] >>
  /\ adminTasks =
       << [taskType |-> "payment", status |-> "posted", userId |-> "u1",
           orderId |-> 1, message |-> <<>>, adminMessages |-> 1] >>
  /\ userMedia = {}
  /\ adPosts = <<>>
  /\ profiles = [u \in Users |-> [gender |-> "none", adCount |-> 0]]
  /\ vipSubscriptions = <<>>
  /\ routing = AllRouting

NextContact ==
  \/ handleCallbackQuery(1, "approve")
  \/ \E c \in calls : handlePaymentSelect(c)
  \/ \E c \in calls : handlePaymentUpdate(c)
  \/ \E c \in calls, found \in BOOLEAN : fulfillContactOrderSend(c, found)
  \/ \E c \in calls : fulfillContactOrderDone(c)
  \/ \E u \in Users, text \in InboundTexts :
       /\ inbound < MaxContactInbound
       /\ handleIncomingMessage(u, text)
       /\ UNCHANGED restOfDebounce
  \/ \E p \in procs : FragmentCheck(p) /\ UNCHANGED restOfDebounce
  \/ \E p \in procs : FragmentSend(p) /\ UNCHANGED restOfDebounce

SpecContact == InitContact /\ [][NextContact]_vars

\* C33: a contact order is completed only after the message that carries the
\* contact has been sent to the buyer.
C33_CompletedMeansContactSent ==
  \A i \in 1..Len(orders) :
    (orders[i].orderType = "contact" /\ orders[i].status = "completed")
    => \E f \in sentFragments : f.kind = "admin" /\ f.fragment = ContactMessage

\* C34: a persisted step escalated_to_admin is replaced only by the step in
\* which resumeAiForUser runs for that user.
C34_EscalatedStepHeld ==
  [][ \A u \in Users :
        (currentStep[u] = "escalated_to_admin" /\ currentStep'[u] # currentStep[u])
        => \E c \in calls \ calls' :
             c.action = "resume" /\ c.pc = "side" /\ adminTasks[c.task].userId = u
    ]_vars

(***************************************************************************)
(* Intake of an anketa.  maybeCreateAnketaTask runs in handleIncomingMessage *)
(* between forwardIncomingMedia and handleOrderFlow; the worker of          *)
(* AdminBotService runs beside it.                                          *)
(***************************************************************************)
MaxAnketas == 2

\* a text that isLikelyAnketa accepts and validateAnketa finds complete
AnketaText == "Jins: ayol / Ism: Malika / Yosh: 24 / Manzil: Toshkent"

NotReadyText == << "2 ta rasm va 1 ta yumaloq video yuboring." >>
PayFirstText == << "Avval to'lovni yakunlaymiz." >>
TooManyText == << "Ortiqcha fayllarni yubormang. 2 ta rasm va 1 ta video kerak." >>

\* handleIncomingMessage for an anketa text, up to the return of
\* createAdminTask inside maybeCreateAnketaTask (or up to the reply of one of
\* its early returns)
maybeCreateAnketaTaskInsert(u) ==
  /\ nflows < MaxAnketas
  /\ routing.anketasTopicId
  /\ nflows' = nflows + 1
  /\ IF isUserBlocked(u) \/ isAiPausedForUser(u)
     THEN /\ dropped' = dropped \cup
               {[kind |-> "text", id |-> nflows + 1, user |-> u,
                 blocked |-> isUserBlocked(u)]}
          /\ UNCHANGED << anketaCalls, adminTasks, currentStep, replyTokens, procs >>
     ELSE LET openAdOrder == getOpenAdOrder(orders, u)
              mediaCounts == getAdMediaCounts(u, openAdOrder)
              call == [id |-> nflows + 1, user |-> u, order |-> openAdOrder,
                       task |-> 0]
          IN /\ UNCHANGED dropped
             /\ IF /\ openAdOrder # 0
                   /\ orders[openAdOrder].status
                        \notin {"awaiting_content", "ready_to_publish"}
                THEN /\ sendAdminResponse(u, PayFirstText)
                     /\ anketaCalls' = anketaCalls \cup {call}
                     /\ UNCHANGED << adminTasks, currentStep >>
                ELSE IF ~mediaCounts.ready
                THEN /\ currentStep' =
                          [currentStep EXCEPT ![u] = "awaiting_candidate_media"]
                     /\ sendAdminResponse(u, NotReadyText)
                     /\ anketaCalls' = anketaCalls \cup {call}
                     /\ UNCHANGED adminTasks
                ELSE IF mediaCounts.photos > 2 \/ mediaCounts.videos > 1
                THEN /\ currentStep' =
                          [currentStep EXCEPT ![u] = "awaiting_candidate_media"]
                     /\ sendAdminResponse(u, TooManyText)
                     /\ anketaCalls' = anketaCalls \cup {call}
                     /\ UNCHANGED adminTasks
                ELSE /\ createAdminTask("publish", u, openAdOrder, << AnketaText >>)
                     /\ anketaCalls' = anketaCalls \cup
                          {[call EXCEPT !.task = Len(adminTasks) + 1]}
                     /\ UNCHANGED << currentStep, replyTokens, procs >>
  /\ UNCHANGED << modelConfigured, problemsTopicId, startup, stepCalls, nstepCalls,
                  approvedMedia, pendingReplies, timers, aiPausedUsers, blockedUsers, debLogVars,
                  orders, userMedia, adPosts, profiles, subVars, botVars, flows,
                  mediaVars, modLogVars >>

\* the rest of maybeCreateAnketaTask, and the first reads of handleOrderFlow:
\* the task that was created is marked media_ready, the open ad order becomes
\* ready_to_publish and the step awaiting_publish_review
maybeCreateAnketaTaskMark(a) ==
  /\ a \in anketaCalls
  /\ anketaCalls' = anketaCalls \ {a}
  /\ LET marked == a.task # 0
         rows == IF marked /\ a.order # 0
                 THEN [orders EXCEPT ![a.order].status = "ready_to_publish"]
                 ELSE orders
         step == IF marked /\ a.order # 0 THEN "awaiting_publish_review"
                 ELSE currentStep[a.user]
         openOrder == getLatestOpenOrder(rows, a.user)
     IN /\ adminTasks' = IF marked
                         THEN [adminTasks EXCEPT ![a.task].status = "media_ready"]
                         ELSE adminTasks
        /\ orders' = rows
        /\ flows' = flows \cup
             {[id |-> a.id, media |-> 0, user |-> a.user, text |-> AnketaText,
               openOrder |-> openOrder,
               orderType |-> IF openOrder = 0 THEN "none"
                             ELSE rows[openOrder].orderType,
               status |-> IF openOrder = 0 THEN "none"
                          ELSE rows[openOrder].status]}
        /\ currentStep' = [currentStep EXCEPT ![a.user] =
             resolveCurrentStep(step, StepOfOrder(rows, openOrder))]
  /\ UNCHANGED << modelConfigured, problemsTopicId, startup, stepCalls, nstepCalls,
                  approvedMedia, slotVars, aiPausedUsers, blockedUsers, procs,
                  debLogVars, userMedia, adPosts, profiles, subVars, botVars, nflows,
                  mediaVars, inboxVars, modLogVars >>

\* the media of a complete anketa: two photos and one video
AnketaMediaStored ==
  TwoPhotosStored \cup
    { [id |-> 13, userId |-> "u1", orderId |-> 1, mediaType |-> "video"] }

\* a user with a paid ad order waiting for content, whose media are complete
\* or still lack the video; every topic is configured
InitAnketa ==
  /\ NoActivity
  /\ modelConfigured = TRUE
  /\ startup = Serving
  /\ stepCalls = {}
  /\ nstepCalls = 0
  /\ anketaCalls = {}
  /\ approvedMedia = {}
  /\ problemsTopicId = TRUE
  /\ aiPausedUsers = {}
  /\ blockedUsers = {}
  /\ currentStep = [u \in Users |-> "awaiting_candidate_media"]
  /\ orders = << [orderType |-> "ad", status |-> "awaiting_content", userId |-> "u1",
                  amount |-> adPrice] >>
  /\ adminTasks = <<>>
  /\ userMedia \in {AnketaMediaStored, TwoPhotosStored}
  /\ adPosts = <<>>
  /\ profiles = [u \in Users |-> [gender |-> "female", adCount |-> 1]]
  /\ vipSubscriptions = <<>>
  /\ routing = AllRouting

\* the steps that are taken whenever they can be: the handler goes on after an
\* await, the worker's interval fires, a send to the admin group succeeds
AnketaProgress ==
  \/ \E a \in anketaCalls : maybeCreateAnketaTaskMark(a)
  \/ \E f \in flows : handleOrderFlowAct(f)
  \/ processPendingTasks
  \/ \E w \in workerRuns : postTaskSend(w, TRUE)
  \/ \E w \in workerRuns : postTaskUpdate(w)
  \/ \E p \in procs : FragmentCheck(p) /\ UNCHANGED restOfDebounce
  \/ \E p \in procs : FragmentSend(p) /\ UNCHANGED restOfDebounce

NextAnketa ==
  \/ \E u \in Users : maybeCreateAnketaTaskInsert(u)
  \/ AnketaProgress

SpecAnketa == InitAnketa /\ [][NextAnketa]_vars /\ WF_vars(AnketaProgress)

\* C35: every admin task that is created is in the end posted to its topic
\* (or skipped), when the topics are configured and the sends succeed.
C35_CreatedTaskGetsPosted ==
  <>[](\A i \in 1..Len(adminTasks) :
         adminTasks[i].adminMessages > 0 \/ adminTasks[i].status = "skipped")

\* C36: no admin task is posted to its review topic more than once.
C36_TaskPostedOnce ==
  \A i \in 1..Len(adminTasks) : adminTasks[i].adminMessages <= 1

(***************************************************************************)
(* Media of an ad between its approval and its publication: the user can   *)
(* clear the media of the open ad order and send new media while the       *)
(* publish task waits for the publish button.                              *)
(***************************************************************************)
MaxResets == 1

MediaResetText == "media reset"

\* handleIncomingMessage for a text that isMediaResetCommand accepts: the first
\* branch of handleOrderFlow (without an open ad order handleOrderFlow goes on
\* with its other branches)
handleMediaResetCommand(u) ==
  /\ nflows < MaxResets
  /\ modelConfigured
  /\ nflows' = nflows + 1
  /\ IF isUserBlocked(u) \/ isAiPausedForUser(u)
     THEN /\ dropped' = dropped \cup
               {[kind |-> "text", id |-> nflows + 1, user |-> u,
                 blocked |-> isUserBlocked(u)]}
          /\ UNCHANGED << userMedia, replyTokens, procs, flows, currentStep >>
     ELSE LET openAdOrder == getOpenAdOrder(orders, u)
              openOrder == getLatestOpenOrder(orders, u)
          IN /\ UNCHANGED dropped
             /\ IF openAdOrder # 0
                THEN /\ clearOrderMedia(u, openAdOrder)
                     /\ sendAdminResponse(u, << "Media tozalandi." >>)
                     /\ UNCHANGED << flows, currentStep >>
                ELSE /\ flows' = flows \cup
                          {[id |-> nflows + 1, media |-> 0, user |-> u,
                            text |-> MediaResetText, openOrder |-> openOrder,
                            orderType |-> IF openOrder = 0 THEN "none"
                                          ELSE orders[openOrder].orderType,
                            status |-> IF openOrder = 0 THEN "none"
                                       ELSE orders[openOrder].status]}
                     /\ currentStep' = [currentStep EXCEPT ![u] =
                          resolveCurrentStep(@, StepOfOrder(orders, openOrder))]
                     /\ UNCHANGED << userMedia, replyTokens, procs >>
  /\ UNCHANGED << cfgVars, pendingReplies, timers, aiPausedUsers, blockedUsers,
                  debLogVars, adminTasks, orders, adPosts, profiles, subVars, botVars,
                  mediaVars, modLogVars >>

\* an ad order ready to publish with its two photos and its video stored; the
\* publish task has been posted to the anketa topic
InitRepublish ==
  /\ NoActivity
  /\ modelConfigured = TRUE
  /\ startup = Serving
  /\ stepCalls = {}
  /\ nstepCalls = 0
  /\ anketaCalls = {}
  /\ approvedMedia = {}
  /\ problemsTopicId = TRUE
  /\ aiPausedUsers = {}
  /\ blockedUsers = {}
  /\ currentStep = [u \in Users |-> "awaiting_publish_review"]
  /\ orders = << [orderType |-> "ad", status |-> "ready_to_publish", userId |-> "u1",
                  amount |-> adPrice] >>
  /\ adminTasks =
       << [taskType |-> "publish", status |-> "posted", userId |-> "u1",
           orderId |-> 1, message |-> << AnketaText >>, adminMessages |-> 1] >>
  /\ userMedia = AnketaMediaStored
  /\ adPosts = <<>>
  /\ profiles = [u \in Users |-> [gender |-> "female", adCount |-> 1]]
  /\ vipSubscriptions = <<>>
  /\ routing = AllRouting

\* the user sends the next message when the one before has been handled
UserIdle == mediaHandlers = {} /\ flows = {} /\ procs = {}

NextRepublish ==
  \/ \E action \in {"media_approve", "publish"} : handleCallbackQuery(1, action)
  \/ \E c \in calls : handleMediaApprove(c)
  \/ \E c \in calls : handlePublishSelect(c)
  \/ \E c \in calls, archiveOk \in BOOLEAN, publicOk \in BOOLEAN, vipOk \in BOOLEAN :
       publishAnketaTask(c, archiveOk, publicOk, vipOk)
  \/ \E u \in Users : UserIdle /\ handleMediaResetCommand(u)
  \/ \E u \in Users, mediaType \in MediaTypes :
       UserIdle /\ forwardIncomingMedia(u, mediaType, MediaContent)
  \/ \E h \in mediaHandlers : checkMediaLimits(h)
  \/ \E h \in mediaHandlers : storeUserMedia(h)
  \/ \E h \in mediaHandlers : handleOrderFlowReadAfterMedia(h)
  \/ \E f \in flows : handleOrderFlowAct(f)
  \/ \E p \in procs : FragmentCheck(p) /\ UNCHANGED restOfDebounce
  \/ \E p \in procs : FragmentSend(p) /\ UNCHANGED restOfDebounce

SpecRepublish == InitRepublish /\ [][NextRepublish]_vars

\* C37: the media that publishAnketaTask publishes for a task are the media
\* that were stored for the order when the task's media were approved.
C37_PublishedMediaWereApproved ==
  [][ \A r \in publishRuns' \ publishRuns :
        (r.publicStatus = "published" \/ r.vipStatus = "published")
        => \E c \in calls, a \in approvedMedia :
             /\ c.id = r.call
             /\ a.task = c.task
             /\ a.media = MediaHeldFor(orders[r.order].userId, r.order) ]_vars

(***************************************************************************)
(* Restart.  The maps and sets of TelegramService and the handlers in      *)
(* flight live in the process; the tables survive it.                      *)
(***************************************************************************)
MaxRestartInbound == 2

\* the process ends and a new one completes onModuleInit: every field
\* initialiser runs again, the startup probe passes, the handler is attached
restartProcess ==
  /\ aiPausedUsers' = {}
  /\ blockedUsers' = {}
  /\ replyTokens' = [u \in Users |-> 0]
  /\ pendingReplies' = [u \in Users |-> NoPending]
  /\ timers' = [u \in Users |-> {}]
  /\ procs' = {}
  /\ calls' = {}
  /\ workerRuns' = {}
  /\ flows' = {}
  /\ mediaHandlers' = {}
  /\ stepCalls' = {}
  /\ anketaCalls' = {}
  /\ mediaArchiveSchemaChecked' = TRUE
  /\ startup' = Serving
  /\ UNCHANGED << modelConfigured, problemsTopicId, nstepCalls, approvedMedia,
                  currentStep, debLogVars, dbVars, subVars, routing, ncalls, nruns,
                  nflows, nmedia, columnsPresent, nschema, lastProbe, insertLog,
                  inboxVars, modLogVars >>

\* a user whose conversation was escalated: paused in memory, the step
\* persisted, the escalation task posted and not yet resolved
InitRestart ==
  /\ NoActivity
  /\ modelConfigured = TRUE
  /\ startup = Serving
  /\ stepCalls = {}
  /\ nstepCalls = 0
  /\ anketaCalls = {}
  /\ approvedMedia = {}
  /\ problemsTopicId = TRUE
  /\ aiPausedUsers = Users
  /\ blockedUsers = {}
  /\ currentStep = [u \in Users |-> "escalated_to_admin"]
  /\ orders = <<>>
  /\ adminTasks =
       << [taskType |-> "escalation", status |-> "posted", userId |-> "u1",
           orderId |-> 0, message |-> << "firibgar" >>, adminMessages |-> 1] >>
  /\ userMedia = {}
  /\ adPosts = <<>>
  /\ profiles = [u \in Users |-> [gender |-> "none", adCount |-> 0]]
  /\ vipSubscriptions = <<>>
  /\ routing = AllRouting

NextRestart ==
  \/ restartProcess
  \/ \E action \in ActionsOfTaskType("escalation") : handleCallbackQuery(1, action)
  \/ \E c \in calls : handleEscalationSelect(c)
  \/ \E c \in calls : handleEscalationSide(c)
  \/ \E c \in calls : handleEscalationUpdate(c)
  \/ \E u \in Users, text \in InboundTexts :
       /\ inbound < MaxRestartInbound
       /\ handleIncomingMessage(u, text)
       /\ UNCHANGED restOfDebounce
  \/ \E u \in Users : \E token \in timers[u] :
       processBufferedReply(u, token) /\ UNCHANGED restOfDebounce
  \/ \E p \in procs : EscalationCheck(p) /\ UNCHANGED restOfDebounce
  \/ \E p \in procs, responseText \in AiResponses :
       AiReturn(p, responseText, FALSE) /\ UNCHANGED restOfDebounce
  \/ \E p \in procs : FragmentCheck(p) /\ UNCHANGED restOfDebounce
  \/ \E p \in procs : FragmentSend(p) /\ UNCHANGED restOfDebounce

SpecRestart == InitRestart /\ [][NextRestart]_vars

\* the user's conversation is held by a human: the persisted step says so and
\* an escalation task of the user is still undecided
HeldByHuman(u) ==
  /\ currentStep[u] = "escalated_to_admin"
  /\ \E i \in 1..Len(adminTasks) :
       /\ adminTasks[i].taskType = "escalation"
       /\ adminTasks[i].userId = u
       /\ adminTasks[i].status \in {"pending", "posted"}

\* C38: no fragment of an AI reply is sent to a user whose step is
\* escalated_to_admin and whose escalation is unresolved, restarts included.
C38_NoAutoReplyAfterRestart ==
  [][ \A p \in procs \ procs' :
        (p.kind = "ai" /\ sentFragments' # sentFragments) => ~HeldByHuman(p.user)
    ]_vars

\* a payment task of the order that no moderator has decided yet
UndecidedPaymentTask(orderId) ==
  \E t \in 1..Len(adminTasks) :
    /\ adminTasks[t].taskType = "payment"
    /\ adminTasks[t].orderId = orderId
    /\ adminTasks[t].status \in {"pending", "posted"}

\* C39: an order in payment_submitted has an undecided payment task, once the
\* handlers that are working on the order or its tasks have returned.
C39_SubmittedOrderHasOpenTask ==
  \A i \in 1..Len(orders) :
    ( /\ orders[i].status = "payment_submitted"
      /\ \A c \in calls : adminTasks[c.task].orderId # i
      /\ \A h \in mediaHandlers : h.user # orders[i].userId )
    => UndecidedPaymentTask(i)

(***************************************************************************)
(* The posting worker alone: its runs over the pending tasks, with sends   *)
(* that succeed, fail inside a post function's try block, or fail before.  *)
(***************************************************************************)
\* postPublishTask throws: sendAnketaPreview and sendAnketaPreviewFirstPhoto
\* are awaited before the try block, and the loop of processPendingTasks
\* catches nothing, so the run ends with the rest of its batch unvisited
postPublishTaskThrow(w) ==
  /\ w \in workerRuns
  /\ w.pc = "send"
  /\ adminTasks[Head(w.batch)].taskType = "publish"
  /\ workerRuns' = workerRuns \ {w}
  /\ UNCHANGED << debVars, dbVars, subVars, routing, calls, ncalls, nruns, flowVars,
                  mediaVars, inboxVars, modLogVars >>

InitWorker == InitModeration

NextWorker ==
  \/ processPendingTasks
  \/ \E w \in workerRuns, sent \in BOOLEAN : postTaskSend(w, sent)
  \/ \E w \in workerRuns : postTaskUpdate(w)
  \/ \E w \in workerRuns : postPublishTaskThrow(w)

SpecWorker == InitWorker /\ [][NextWorker]_vars

\* C40: when the posting of a task fails, the run goes on with the tasks that
\* remain in its batch.
C40_FailedPostingKeepsRunGoing ==
  [][ \A w \in workerRuns \ workerRuns' :
        (w.pc = "send" /\ adminTasks' = adminTasks /\ Len(w.batch) > 1)
        => \E v \in workerRuns' : v.run = w.run /\ v.batch = Tail(w.batch) ]_vars

====
